---- MODULE Spec2Model ----
(***************************************************************************)
(* Model of the PixivArchive pipeline:                                     *)
(*   resolve_main -> resolve_artworks -> download stage -> archive_artworks *)
(* Channels are unbounded FIFO queues.  A step runs a task from one await  *)
(* that can suspend it to the next; the resolve loop's recv and find_post  *)
(* check are one step because nothing suspends between them.  Every call   *)
(* to the Fetch Client, the file system or the Storage Manager may succeed *)
(* or fail.                                                                *)
(***************************************************************************)
EXTENDS Integers, Sequences, FiniteSets, TLC

\* ------------------------------------------------------------------ bounds

\* numeric artwork ids that the configuration may name: 1..NumArt
NumArt == 2
\* total number of ids in config.illusts and config.novels
MaxSeeds == 2
\* number of ids in config.illusts under the download-stage specification
MaxSeedsDL == 4
\* number of posts an earlier run may have left committed
MaxPrev == 1
\* length of a tag list
MaxTags == 3
\* length of the array in a response body
MaxItems == 2
\* total number of ids in the configuration under the dispatch specification
MaxDispatch == 3
\* work ids under the content-assembly specification: 1..NumWorks
NumWorks == 11
\* comment ids of the platform: 1..NumComments
NumComments == 5
\* length of the root comment list, whose ids are 1..MaxRoots
MaxRoots == 2
\* user ids that the configuration may name: 1..NumUsers
NumUsers == 2
\* number of ids in config.users
MaxUsers == 1
\* series ids that the configuration may name: 0..NumSeries
NumSeries == 2
\* total number of ids in config.illust_series and config.novel_series
MaxSeries == 2

\* --------------------------------------------------------------- constants

\* the page size of an illustration series and of a novel series
IllustSeriesLimit == 12
NovelSeriesLimit == 30

\* const LIMIT: usize = 100
LIMIT == 100

\* Semaphore::new(3)
SemaphorePermits == 3

\* ------------------------------------------------------- remote platform
\* What the remote platform answers for artwork n (the fields the pipeline
\* reads).  The formulas are total so that every numeric id has an answer.

\* PixivArtwork.user_id
UserOf(n) == n % 2

\* length of the page list of illustration n (ajax/illust/{id}/pages)
NumPages(n) == n % 3

\* PixivArtwork.illust_type of illustration n
IllustTypeOf(n) ==
    IF n % 2 = 0 THEN "Ugoira" ELSE IF n % 4 = 1 THEN "Illust" ELSE "Manga"

\* ----------------------------------------------------------- pure helpers

\* PixivArtworkId::Illust(n) / PixivArtworkId::Novel(n)
Illust(n) == <<"Illust", n>>
Novel(n) == <<"Novel", n>>

\* PixivArtworkId::url
url(aid) ==
    IF aid[1] = "Illust"
    THEN <<"https://www.pixiv.net/artworks/", aid[2]>>
    ELSE <<"https://www.pixiv.net/novel/show.php?id=", aid[2]>>

\* ArchiveRequest::url
request_url(req) == req.url

\* url_into_file_meta: file name (the last path segment of the URL unless one
\* is given) and request built from a URL
url_into_file_meta(u, filename, size) ==
    [ filename |-> IF filename = "" THEN u ELSE <<filename, 0, 0>>,
      data |-> IF size = <<>>
               THEN [variant |-> "Image", url |-> u, size |-> <<>>]
               ELSE [variant |-> "ImageWithSize", url |-> u, size |-> size] ]

\* fetch_pages as it would be if it took the thumbnail URL of each page
fetch_pages_thumb_mini(n) ==
    [ i \in 1..NumPages(n) |->
        url_into_file_meta(<<"thumb_mini", n, i>>, "", <<>>) ]

\* illust::fetch_pages on success: one file meta per page, original URL
fetch_pages(n) ==
    [ i \in 1..NumPages(n) |->
        url_into_file_meta(<<"original", n, i>>, "", <<>>) ]

\* novel::parse_cover
parse_cover(n) == url_into_file_meta(<<"cover", n, 0>>, "cover.jpg", <<427, 600>>)

\* common::parse_description
parse_description(aid) == << [kind |-> "Text", text |-> "description"] >>

AsFile(meta) == [kind |-> "File", meta |-> meta]

\* the file meta get_contents_and_thumb builds from the ugoira_meta response
ugoira_meta(n) ==
    [ filename |-> <<"ugoira.webm", 0, 0>>,
      data |-> [variant |-> "Ugoira", url |-> <<"ugoira", n, 0>>, size |-> <<>>] ]

RECURSIVE MapFile(_)
MapFile(metas) ==
    IF metas = <<>> THEN <<>>
    ELSE <<AsFile(Head(metas))>> \o MapFile(Tail(metas))

\* common::get_contents_and_thumb; pagesOk and ugoiraOk are the outcomes of the
\* page-list fetch and of the ugoira_meta fetch.  For an Ugoira the thumb is
\* unwrapped before the ugoira_meta fetch, which panics on an empty page list.
get_contents_and_thumb(aid, pagesOk, ugoiraOk) ==
    IF aid[1] = "Illust"
    THEN IF ~pagesOk
         THEN [contents |-> <<>>, thumb |-> <<>>, panicked |-> FALSE]
         ELSE LET metas == fetch_pages(aid[2])
                  thumb == IF metas = <<>> THEN <<>> ELSE <<Head(metas)>>
              IN IF IllustTypeOf(aid[2]) = "Ugoira"
                 THEN IF thumb = <<>>
                      THEN [contents |-> <<>>, thumb |-> <<>>, panicked |-> TRUE]
                      ELSE IF ~ugoiraOk
                      THEN [contents |-> <<>>, thumb |-> <<>>, panicked |-> FALSE]
                      ELSE [ contents |-> parse_description(aid)
                                            \o <<AsFile(ugoira_meta(aid[2]))>>,
                             thumb |-> thumb, panicked |-> FALSE ]
                 ELSE [ contents |-> parse_description(aid) \o MapFile(metas),
                        thumb |-> thumb, panicked |-> FALSE ]
    ELSE [ contents |-> parse_description(aid)
                          \o << [kind |-> "Text", text |-> "content"] >>,
           thumb |-> <<parse_cover(aid[2])>>, panicked |-> FALSE ]

RECURSIVE ContentFiles(_)
ContentFiles(contents) ==
    IF contents = <<>> THEN <<>>
    ELSE IF Head(contents).kind = "File"
         THEN <<Head(contents).meta>> \o ContentFiles(Tail(contents))
         ELSE ContentFiles(Tail(contents))

RECURSIVE MapData(_)
MapData(metas) ==
    IF metas = <<>> THEN <<>>
    ELSE <<Head(metas).data>> \o MapData(Tail(metas))

\* the request list of the file batch: every content file, then the thumb
batch_files(contents, thumb) == MapData(ContentFiles(contents) \o thumb)

\* the URL -> temp file mapping of a fully downloaded batch (a HashMap: one
\* entry per distinct URL)
full_mapping(batch) == { request_url(batch[i]) : i \in 1..Len(batch) }

\* find_post as it would be if the idempotence check never matched
find_post_never(committed, source) == FALSE

\* Storage Manager find_post: Ok(Some(_)) iff a committed post has the source
find_post(committed, source) == source \in committed

\* the paginated lists of the session's user
FavLists == { "following", "illusts", "novels" }

\* --------------------------------------------------------------- state

VARIABLES
    config,             \* [illusts, novels]: the seed ids of the run
    posts0,             \* sources of the posts committed by earlier runs
    posts,              \* Storage Manager: sources of the committed posts
    authors,            \* Storage Manager: external ids of the stored authors
    artworks_pipeline,  \* channel of PixivArtworkId
    files_pipeline,     \* channel of FileEvent (unit numbers)
    sync_pipeline,      \* channel of SyncEvent (unit numbers)
    main_pc,            \* resolve_main: "start" | "done"
    units,              \* spawned resolution tasks, in spawn order
    handshake,          \* per unit: the oneshot channel
    dtask,              \* per unit: the download task
    permits,            \* the semaphore of the download stage
    ppc,                \* archive_artworks loop position
    pcur,               \* the unit archive_artworks holds (0: none)
    files_map,          \* archive_artworks: the resolved mapping (set of URLs)
    returned,           \* archive_artworks: the (path, request) pairs of the held unit
    pidx,               \* archive_artworks: pairs of the held unit already placed
    lock,               \* the Manager mutex: "free" | "persist"
    cache,              \* UserManager.inner: external ids with an author id
    openTx,             \* units whose transaction is open
    plog,               \* per unit: what archive_artworks did for it
    placed,             \* archive_artworks: final paths written for the held unit
    rstage,             \* resolve_artworks: "running" | "returned" | "panicked"
    dstage,             \* the download stage: "running" | "returned" | "panicked"
    call,               \* a call of a pure function: <<>> or <<its arguments>>
    result,             \* what the call returned: <<>> or <<the value>>
    users_pipeline,     \* channel of PixivUserId
    series_pipeline,    \* channel of PixivSeriesId
    xtasks,             \* spawned expansion tasks, in spawn order
    cu_pc,              \* reslove_current_user: "start" | "settings" | "spawned" | "returned"
    remote              \* the totals the platform reports for the session's lists

vars == << config, posts0, posts, authors, artworks_pipeline, files_pipeline,
           sync_pipeline, main_pc, units, handshake, dtask, permits,
           ppc, pcur, files_map, returned, pidx, lock, cache, openTx, plog,
           placed, rstage, dstage, call, result, users_pipeline,
           series_pipeline, xtasks, cu_pc, remote >>

pipelineVars == << config, posts0, posts, authors, artworks_pipeline,
                   files_pipeline, sync_pipeline, main_pc, units, handshake,
                   dtask, permits, ppc, pcur, files_map, returned, pidx, lock,
                   cache, openTx, plog, placed, rstage, dstage >>
resolveVars == << units >>
stageVars == << rstage, dstage >>
pureVars == << call, result >>
expandVars == << users_pipeline, series_pipeline, xtasks, cu_pc, remote >>
auxVars == << pureVars, expandVars >>
downloadVars == << dtask, permits >>
persistVars == << ppc, pcur, files_map, returned, pidx, lock, cache, openTx,
                  posts, authors, plog, placed >>

Unit == 1..Len(units)

\* ----------------------------------------------------------------- Init

RECURSIVE SeqsUpTo(_, _)
SeqsUpTo(S, n) ==
    IF n = 0 THEN { <<>> }
    ELSE SeqsUpTo(S, n - 1)
           \cup { Append(s, x) : s \in { t \in SeqsUpTo(S, n - 1) : Len(t) = n - 1 }, x \in S }

SeedIds(cfg) ==
    { Illust(cfg.illusts[i]) : i \in 1..Len(cfg.illusts) }
      \cup { Novel(cfg.novels[i]) : i \in 1..Len(cfg.novels) }

\* the state of the stages when PixivSystem starts them
InitStages ==
    /\ posts = posts0
    /\ authors = {}
    /\ artworks_pipeline = <<>>
    /\ files_pipeline = <<>>
    /\ sync_pipeline = <<>>
    /\ main_pc = "start"
    /\ units = <<>>
    /\ handshake = <<>>
    /\ dtask = <<>>
    /\ permits = SemaphorePermits
    /\ ppc = "recv"
    /\ pcur = 0
    /\ files_map = {}
    /\ returned = <<>>
    /\ pidx = 0
    /\ lock = "free"
    /\ cache = {}
    /\ openTx = {}
    /\ plog = <<>>
    /\ placed = {}
    /\ rstage = "running"
    /\ dstage = "running"
    /\ users_pipeline = <<>>
    /\ series_pipeline = <<>>
    /\ xtasks = <<>>
    /\ cu_pc = "start"

\* a configuration that names artworks only
InitWith(maxIllusts, maxNovels, maxTotal) ==
    /\ config \in { c \in [ illusts : SeqsUpTo(1..NumArt, maxIllusts),
                            novels : SeqsUpTo(1..NumArt, maxNovels),
                            users : { <<>> },
                            illust_series : { <<>> },
                            novel_series : { <<>> },
                            favorite : { FALSE },
                            followed_users : { FALSE } ] :
                      Len(c.illusts) + Len(c.novels) <= maxTotal }
    /\ posts0 \in { P \in SUBSET { url(a) : a \in SeedIds(config) } :
                      Cardinality(P) <= MaxPrev }
    /\ remote = [l \in FavLists |-> 0]
    /\ InitStages

\* no pure function is under test
NoCall ==
    /\ call = <<>>
    /\ result = <<>>

Init == InitWith(MaxSeeds, MaxSeeds, MaxSeeds) /\ NoCall

\* ------------------------------------------------------- Seed Dispatcher

RECURSIVE MapIllust(_)
MapIllust(ids) ==
    IF ids = <<>> THEN <<>> ELSE <<Illust(Head(ids))>> \o MapIllust(Tail(ids))

\* the text-work ids as they would be sent with the illustration tag
MapNovel_as_illust(ids) == MapIllust(ids)

RECURSIVE MapNovel(_)
MapNovel(ids) ==
    IF ids = <<>> THEN <<>> ELSE <<Novel(Head(ids))>> \o MapNovel(Tail(ids))

\* resolve_main: no await between the sends, so it is one step
resolve_main ==
    /\ main_pc = "start"
    /\ main_pc' = "done"
    /\ users_pipeline' = users_pipeline \o config.users
    /\ series_pipeline' =
         series_pipeline \o MapIllust(config.illust_series)
                         \o MapNovel(config.novel_series)
    /\ artworks_pipeline' =
         artworks_pipeline \o MapIllust(config.illusts) \o MapNovel(config.novels)
    /\ UNCHANGED << config, posts0, files_pipeline, sync_pipeline, handshake >>
    /\ UNCHANGED << resolveVars, downloadVars, persistVars >>
    /\ UNCHANGED << stageVars, pureVars, xtasks, cu_pc, remote >>

\* ---------------------------------------------------- Artwork Resolution

\* the lock as it would be if it were granted whoever holds the Manager
manager_lock_unguarded(l) == TRUE

\* Manager = Mutex<PostArchiverManager>: manager.lock().await completes only
\* when no guard is alive
manager_lock(l) == l = "free"

\* the task record resolve_artworks spawns for an id that is not skipped
spawn_task(aid) ==
    [ id |-> aid, pc |-> "meta", contents |-> <<>>, thumb |-> <<>>, batch |-> <<>> ]

\* resolve_artworks, one iteration of the loop: artworks_pipeline.recv().await,
\* manager.lock().await.find_post(..), then skip or spawn
resolve_artworks ==
    /\ rstage = "running"
    /\ artworks_pipeline # <<>>
    /\ manager_lock(lock)
    /\ LET id == Head(artworks_pipeline)
       IN IF find_post(posts, url(id))
          THEN UNCHANGED << units, handshake, dtask, plog >>
          ELSE /\ units' = Append(units, spawn_task(id))
               /\ handshake' = Append(handshake, [state |-> "pending", map |-> {}])
               /\ dtask' = Append(dtask, "none")
               /\ plog' = Append(plog, {})
    /\ artworks_pipeline' = Tail(artworks_pipeline)
    /\ UNCHANGED << config, posts0, files_pipeline, sync_pipeline, main_pc,
                    permits >>
    /\ UNCHANGED << ppc, pcur, files_map, returned, pidx, lock, cache, openTx,
                    posts, authors, placed >>
    /\ UNCHANGED << stageVars, auxVars >>

\* spawned task: fetch::<PixivArtwork>; on Err the task returns and both halves
\* of the oneshot channel are dropped unsent
task_fetch(k) ==
    /\ units[k].pc = "meta"
    /\ \E ok \in BOOLEAN :
         units' = [units EXCEPT ![k].pc = IF ok THEN "pages" ELSE "failed"]
    /\ UNCHANGED << config, posts0, artworks_pipeline, files_pipeline,
                    sync_pipeline, main_pc, handshake >>
    /\ UNCHANGED << downloadVars, persistVars >>
    /\ UNCHANGED << stageVars, auxVars >>

\* files_pipeline.send as it would be if the batch were not sent
send_batch_skip(queue, k) == queue

\* files_pipeline.send((files, tx))
send_batch(queue, k) == Append(queue, k)

\* sync_pipeline.send as it would be if the sync unit were sent twice
send_sync_twice(queue, k) == Append(Append(queue, k), k)

\* sync_pipeline.send(SyncEvent { .. })
send_sync(queue, k) == Append(queue, k)

\* spawned task: join!(get_contents_and_thumb, get_comments), then the two
\* sends, which have no await between them; a panic in get_contents_and_thumb
\* unwinds the task before the sends
task_send(k) ==
    /\ units[k].pc = "pages"
    /\ \E pagesOk \in BOOLEAN, ugoiraOk \in BOOLEAN :
         LET ct == get_contents_and_thumb(units[k].id, pagesOk, ugoiraOk)
         IN IF ct.panicked
            THEN /\ units' = [units EXCEPT ![k].pc = "panicked"]
                 /\ UNCHANGED << files_pipeline, sync_pipeline >>
            ELSE /\ units' =
                      [units EXCEPT ![k].pc = "done",
                                    ![k].contents = ct.contents,
                                    ![k].thumb = ct.thumb,
                                    ![k].batch = batch_files(ct.contents, ct.thumb)]
                 /\ files_pipeline' = send_batch(files_pipeline, k)
                 /\ sync_pipeline' = send_sync(sync_pipeline, k)
    /\ UNCHANGED << config, posts0, artworks_pipeline, main_pc, handshake >>
    /\ UNCHANGED << downloadVars, persistVars >>
    /\ UNCHANGED << stageVars, auxVars >>

\* resolve_artworks past its loop: the channel is closed (every sender has
\* returned) and empty, then tasks.join_all().await, which panics when a task
\* panicked; its senders are dropped either way
resolve_artworks_return ==
    /\ rstage = "running"
    /\ main_pc = "done"
    /\ users_pipeline = <<>>
    /\ series_pipeline = <<>>
    /\ cu_pc = "returned"
    /\ \A i \in 1..Len(xtasks) : xtasks[i].pc \in {"done", "failed"}
    /\ artworks_pipeline = <<>>
    /\ \A k \in Unit : units[k].pc \in {"done", "failed", "panicked"}
    /\ rstage' = IF \E k \in Unit : units[k].pc = "panicked"
                 THEN "panicked" ELSE "returned"
    /\ UNCHANGED << config, posts0, artworks_pipeline, files_pipeline,
                    sync_pipeline, main_pc, handshake, dstage >>
    /\ UNCHANGED << resolveVars, downloadVars, persistVars, auxVars >>

\* ------------------------------------------------------- Download Stage

\* the batch loop: an empty request list resolves the handshake at once,
\* otherwise one download task is spawned for the batch
download_files ==
    /\ dstage = "running"
    /\ files_pipeline # <<>>
    /\ LET k == Head(files_pipeline)
       IN IF units[k].batch = <<>>
          THEN /\ handshake' = [handshake EXCEPT ![k] = [state |-> "resolved", map |-> {}]]
               /\ dtask' = [dtask EXCEPT ![k] = "done"]
          ELSE /\ dtask' = [dtask EXCEPT ![k] = "waiting"]
               /\ UNCHANGED handshake
    /\ files_pipeline' = Tail(files_pipeline)
    /\ UNCHANGED << config, posts0, artworks_pipeline, sync_pipeline, main_pc,
                    permits >>
    /\ UNCHANGED << resolveVars, persistVars >>
    /\ UNCHANGED << stageVars, auxVars >>

\* Semaphore::acquire: takes one permit
semaphore_acquire(p) == p - 1

\* dropping a SemaphorePermit gives the permit back
permit_drop(p) == p + 1

\* `let _ = semaphore.acquire().await.unwrap();`: the permit is bound to the
\* wildcard pattern, so it is dropped at the end of the statement
acquire_permit(k) ==
    /\ dtask[k] = "waiting"
    /\ permits > 0
    /\ permits' = permit_drop(semaphore_acquire(permits))
    /\ dtask' = [dtask EXCEPT ![k] = "running"]
    /\ UNCHANGED << config, posts0, artworks_pipeline, files_pipeline,
                    sync_pipeline, main_pc, handshake >>
    /\ UNCHANGED << resolveVars, persistVars >>
    /\ UNCHANGED << stageVars, auxVars >>

\* archive_file: None when the file cannot be created, the download fails or
\* the resized image cannot be saved (fetched = FALSE); for ImageWithSize the
\* image is opened and decoded with unwrap(), which panics when that fails
\* (decoded = FALSE); for Ugoira the function ends in todo!(), which panics;
\* otherwise Some(())
archive_file(request, fetched, decoded) ==
    IF ~fetched THEN "None"
    ELSE IF request.variant = "ImageWithSize" /\ ~decoded THEN "Panic"
    ELSE IF request.variant = "Ugoira" THEN "Todo"
    ELSE "Some"

\* the results of archive_file for the requests of a batch: bad is the position
\* of a request whose download fails, 0 when none does
batch_results(batch, bad, decoded) ==
    { archive_file(batch[i], i # bad, decoded) : i \in 1..Len(batch) }

\* finish_batch as it would be if the mapping were delivered whatever the
\* requests returned
finish_batch_always(batch, bad, decoded) ==
    [state |-> "resolved", map |-> full_mapping(batch)]

\* what the batch's task does with its handshake once every request returned
finish_batch(batch, bad, decoded) ==
    IF batch_results(batch, bad, decoded) \subseteq {"Some"}
    THEN [state |-> "resolved", map |-> full_mapping(batch)]
    ELSE [state |-> "dropped", map |-> {}]

\* how the batch's task ends: a panic unwinds the task, a None ends it early
task_end(results) ==
    IF "Todo" \in results THEN "unimplemented"
    ELSE IF "Panic" \in results THEN "panicked"
    ELSE IF "None" \in results THEN "failed"
    ELSE "done"

\* the download task past the acquire: fetches every request of the batch
download_task(k) ==
    /\ dtask[k] = "running"
    /\ \E bad \in 0..Len(units[k].batch), decoded \in BOOLEAN :
         /\ handshake' = [handshake EXCEPT
                            ![k] = finish_batch(units[k].batch, bad, decoded)]
         /\ dtask' = [dtask EXCEPT
                        ![k] = task_end(batch_results(units[k].batch, bad, decoded))]
    /\ UNCHANGED << config, posts0, artworks_pipeline, files_pipeline,
                    sync_pipeline, main_pc, permits >>
    /\ UNCHANGED << resolveVars, persistVars >>
    /\ UNCHANGED << stageVars, auxVars >>

\* units past the permit acquisition whose download has not finished
InFlight == { k \in Unit : dtask[k] = "running" }

\* download tasks that ended in a panic: their JoinHandle yields a JoinError
Panicked == { k \in Unit : dtask[k] \in {"panicked", "unimplemented"} }

\* JoinSet::join_all on a set that holds a panicked task: it panics, and the
\* JoinSet is dropped, which aborts every task still in it
abort_all(tasks) ==
    [ k \in DOMAIN tasks |->
        IF tasks[k] \in {"waiting", "running"} THEN "cancelled" ELSE tasks[k] ]

\* the end of the download stage: the channel is closed and empty, then
\* join_set.join_all().await
download_join ==
    /\ dstage = "running"
    /\ rstage # "running"
    /\ files_pipeline = <<>>
    /\ IF Panicked # {}
       THEN /\ dstage' = "panicked"
            /\ dtask' = abort_all(dtask)
            /\ handshake' =
                 [ k \in DOMAIN handshake |->
                     IF dtask[k] \in {"waiting", "running"}
                     THEN [state |-> "dropped", map |-> {}]
                     ELSE handshake[k] ]
       ELSE /\ \A k \in Unit : dtask[k] \notin {"waiting", "running"}
            /\ dstage' = "returned"
            /\ UNCHANGED << dtask, handshake >>
    /\ UNCHANGED << config, posts0, artworks_pipeline, files_pipeline,
                    sync_pipeline, main_pc, permits, rstage >>
    /\ UNCHANGED << resolveVars, persistVars, auxVars >>

\* ---------------------------------------------------- Persistence Stage

\* what the unit's spawned task put into its SyncEvent
SourceOf(k) == url(units[k].id)
AuthorOf(k) == UserOf(units[k].id[2])

\* the file-bearing items of the post: its content files, then its thumb
post_items(k) == ContentFiles(units[k].contents) \o units[k].thumb

\* UnsyncPost::sync on success: the final path and the request of the post's
\* file-bearing items; the final path is the post's directory and the file name
create_post(k) ==
    [ i \in 1..Len(post_items(k)) |->
        [ path |-> <<SourceOf(k), post_items(k)[i].filename>>,
          url |-> request_url(post_items(k)[i].data) ] ]

\* the same list with one pair per final path (the first one)
RECURSIVE DistinctPaths(_, _)
DistinctPaths(pairs, seen) ==
    IF pairs = <<>> THEN <<>>
    ELSE IF Head(pairs).path \in seen
         THEN DistinctPaths(Tail(pairs), seen)
         ELSE <<Head(pairs)>>
                \o DistinctPaths(Tail(pairs), seen \cup {Head(pairs).path})

Log(k, event) == [plog EXCEPT ![k] = @ \cup {event}]

\* archive_artworks: sync_pipeline.recv().await
archive_artworks_recv ==
    /\ ppc = "recv"
    /\ sync_pipeline # <<>>
    /\ pcur' = Head(sync_pipeline)
    /\ sync_pipeline' = Tail(sync_pipeline)
    /\ ppc' = "await"
    /\ UNCHANGED << config, posts0, artworks_pipeline, files_pipeline, main_pc,
                    handshake, files_map, returned, pidx, lock, cache, openTx,
                    posts, authors, plog, placed >>
    /\ UNCHANGED << resolveVars, downloadVars >>
    /\ UNCHANGED << stageVars, auxVars >>

\* the await as it would be if a dropped handshake were taken for an empty mapping
handshake_ok_default(h) == TRUE

\* Receiver::await is Ok iff the producer half sent a mapping before it was dropped
handshake_ok(h) == h.state = "resolved"

\* archive_artworks: `let Ok(mut files_map) = event.files.await else continue`
archive_artworks_await ==
    /\ ppc = "await"
    /\ handshake[pcur].state # "pending"
    /\ IF handshake_ok(handshake[pcur])
       THEN /\ files_map' = handshake[pcur].map
            /\ ppc' = "author"
            /\ UNCHANGED << pcur, plog >>
       ELSE /\ plog' = Log(pcur, "handshake_failed")
            /\ ppc' = "recv"
            /\ pcur' = 0
            /\ UNCHANGED files_map
    /\ UNCHANGED << config, posts0, artworks_pipeline, files_pipeline,
                    sync_pipeline, main_pc, handshake, returned, pidx, lock,
                    cache, openTx, posts, authors, placed >>
    /\ UNCHANGED << resolveVars, downloadVars >>
    /\ UNCHANGED << stageVars, auxVars >>

\* UserManager::get as it would be without vacant_entry.insert(author)
UserManager_get_no_insert(inner, user, ok) ==
    IF user \in inner
    THEN [call |-> FALSE, found |-> TRUE, inner |-> inner]
    ELSE [call |-> TRUE, found |-> ok, inner |-> inner]

\* UserManager::get as it would be if the entry were inserted whatever the
\* call returned
UserManager_get_insert_always(inner, user, ok) ==
    IF user \in inner
    THEN [call |-> FALSE, found |-> TRUE, inner |-> inner]
    ELSE [call |-> TRUE, found |-> ok, inner |-> inner \cup {user}]

\* UserManager::get: a cached id is returned without a call; otherwise one
\* create-or-lookup call, whose result is cached only when it is Ok
UserManager_get(inner, user, ok) ==
    IF user \in inner
    THEN [call |-> FALSE, found |-> TRUE, inner |-> inner]
    ELSE IF ok
         THEN [call |-> TRUE, found |-> TRUE, inner |-> inner \cup {user}]
         ELSE [call |-> TRUE, found |-> FALSE, inner |-> inner]

\* archive_artworks: `let Ok(author) = user_manager.import(&manager.lock().await, ..)
\* else continue`; the guard is a temporary of the statement
archive_artworks_author ==
    /\ ppc = "author"
    /\ manager_lock(lock)
    /\ \E ok \in BOOLEAN :
         LET r == UserManager_get(cache, AuthorOf(pcur), ok)
         IN /\ cache' = r.inner
            /\ authors' = IF r.call /\ r.found
                          THEN authors \cup {AuthorOf(pcur)} ELSE authors
            /\ plog' = IF r.call
                       THEN Log(pcur, IF r.found THEN "author_created"
                                                  ELSE "author_failed")
                       ELSE plog
            /\ IF r.found
               THEN /\ ppc' = "begin"
                    /\ UNCHANGED << pcur, files_map >>
               ELSE /\ ppc' = "recv"
                    /\ pcur' = 0
                    /\ files_map' = {}
    /\ UNCHANGED << config, posts0, artworks_pipeline, files_pipeline,
                    sync_pipeline, main_pc, handshake, returned, pidx, lock,
                    openTx, posts, placed >>
    /\ UNCHANGED << resolveVars, downloadVars >>
    /\ UNCHANGED << stageVars, auxVars >>

\* the end of an iteration as it would be if the transaction outlived it
drop_transaction_leak(open, k) == open

\* the transaction of unit k goes out of scope (commit consumed it, or a
\* `continue` dropped it)
drop_transaction(open, k) == open \ {k}

\* the iteration's locals go out of scope: the transaction, the Manager guard,
\* the mapping and the pairs; the loop goes on at next
LeaveIteration(event, next) ==
    /\ plog' = Log(pcur, event)
    /\ openTx' = drop_transaction(openTx, pcur)
    /\ lock' = "free"
    /\ ppc' = next
    /\ pcur' = 0
    /\ files_map' = {}
    /\ returned' = <<>>
    /\ placed' = {}
    /\ pidx' = 0

\* the end of an iteration that holds the Manager guard and a transaction
EndIteration(event) == LeaveIteration(event, "recv")

\* the same without the `if let Some(path) = files.first()` guard
after_create_post_no_guard(pairs) == "mkdir"

\* archive_artworks after create_post returned: create_dir_all of the first
\* pair's parent when there is a first pair, the commit when there is no pair
after_create_post(pairs) == IF pairs = <<>> THEN "commit" ELSE "mkdir"

\* archive_artworks: manager.lock().await, transaction().unwrap(), the two
\* parse_date(..) calls (which unwrap), UnsyncPost::sync; a failed unwrap
\* panics, which unwinds archive_artworks out of its loop
archive_artworks_begin ==
    /\ ppc = "begin"
    /\ manager_lock(lock)
    /\ \E res \in {"Panic", "Err", "Ok", "OkDistinct"} :
         IF res = "Panic"
         THEN LeaveIteration("panicked", "panicked")
         ELSE IF res = "Err"
         THEN EndIteration("post_failed")
         ELSE /\ returned' = IF res = "Ok" THEN create_post(pcur)
                              ELSE DistinctPaths(create_post(pcur), {})
              /\ lock' = "persist"
              /\ openTx' = openTx \cup {pcur}
              /\ plog' = Log(pcur, "transaction")
              /\ ppc' = after_create_post(returned')
              /\ UNCHANGED << pcur, files_map, pidx, placed >>
    /\ UNCHANGED << config, posts0, artworks_pipeline, files_pipeline,
                    sync_pipeline, main_pc, handshake, cache, posts, authors >>
    /\ UNCHANGED << resolveVars, downloadVars >>
    /\ UNCHANGED << stageVars, auxVars >>

\* archive_artworks: fs::create_dir_all of the first pair's parent
archive_artworks_mkdir ==
    /\ ppc = "mkdir"
    /\ \E ok \in BOOLEAN :
         IF ok
         THEN /\ ppc' = "save"
              /\ UNCHANGED << pcur, files_map, returned, pidx, lock, openTx,
                              plog, placed >>
         ELSE EndIteration("mkdir_failed")
    /\ UNCHANGED << config, posts0, artworks_pipeline, files_pipeline,
                    sync_pipeline, main_pc, handshake, cache, posts, authors >>
    /\ UNCHANGED << resolveVars, downloadVars >>
    /\ UNCHANGED << stageVars, auxVars >>

\* save_file: file_map.remove(url), then open and copy (io: whether create_dir_all,
\* the two opens and the copy all succeed)
save_file(file_map, pair, io) ==
    IF pair.url \notin file_map
    THEN [ok |-> FALSE, file_map |-> file_map]
    ELSE [ok |-> io, file_map |-> file_map \ {pair.url}]

\* the loop as it would be if an Err of save_file were only logged
after_save_ignore_error(ok, idx, total) == IF idx = total THEN "commit" ELSE "save"

\* what the loop over the pairs does after one save_file call: the next pair,
\* the commit after the last one, or `continue 'main` on Err
after_save(ok, idx, total) ==
    IF ~ok THEN "abort" ELSE IF idx = total THEN "commit" ELSE "save"

\* archive_artworks: one iteration of `for (path, req) in files`
archive_artworks_save ==
    /\ ppc = "save"
    /\ pidx < Len(returned)
    /\ \E io \in BOOLEAN :
         LET pair == returned[pidx + 1]
             r == save_file(files_map, pair, io)
             next == after_save(r.ok, pidx + 1, Len(returned))
         IN IF next = "abort"
            THEN EndIteration("save_failed")
            ELSE /\ placed' = IF r.ok THEN placed \cup {pair.path} ELSE placed
                 /\ plog' = IF r.ok THEN Log(pcur, "file_placed") ELSE plog
                 /\ ppc' = next
                 /\ pidx' = pidx + 1
                 /\ files_map' = r.file_map
                 /\ UNCHANGED << pcur, returned, lock, openTx >>
    /\ UNCHANGED << config, posts0, artworks_pipeline, files_pipeline,
                    sync_pipeline, main_pc, handshake, cache, posts, authors >>
    /\ UNCHANGED << resolveVars, downloadVars >>
    /\ UNCHANGED << stageVars, auxVars >>

\* archive_artworks: manager.commit()
archive_artworks_commit ==
    /\ ppc = "commit"
    /\ \E ok \in BOOLEAN :
         IF ok
         THEN /\ posts' = posts \cup {SourceOf(pcur)}
              /\ EndIteration("commit")
         ELSE /\ EndIteration("commit_failed")
              /\ UNCHANGED posts
    /\ UNCHANGED << config, posts0, artworks_pipeline, files_pipeline,
                    sync_pipeline, main_pc, handshake, cache, authors >>
    /\ UNCHANGED << resolveVars, downloadVars >>
    /\ UNCHANGED << stageVars, auxVars >>

\* archive_artworks past its loop: the channel is closed and empty
archive_artworks_return ==
    /\ ppc = "recv"
    /\ rstage # "running"
    /\ sync_pipeline = <<>>
    /\ ppc' = "returned"
    /\ UNCHANGED << config, posts0, artworks_pipeline, files_pipeline,
                    sync_pipeline, main_pc, handshake, pcur, files_map, returned,
                    pidx, lock, cache, openTx, posts, authors, plog, placed >>
    /\ UNCHANGED << resolveVars, downloadVars, stageVars, auxVars >>

\* ------------------------------------------------------ Expansion Stages

\* a number as the platform writes it in JSON strings: its decimal digits
RECURSIVE DecimalString(_)
DecimalString(n) ==
    IF n < 10 THEN <<n>> ELSE Append(DecimalString(n \div 10), n % 10)

RECURSIVE ParseDigits(_, _)
ParseDigits(str, acc) ==
    IF str = <<>> THEN acc ELSE ParseDigits(Tail(str), 10 * acc + Head(str))

\* str::parse::<u64>: Err for the empty string and for a non-digit
parse_u64(str) ==
    IF str = <<>> \/ \E i \in 1..Len(str) : str[i] \notin 0..9
    THEN [ok |-> FALSE, value |-> 0]
    ELSE [ok |-> TRUE, value |-> ParseDigits(str, 0)]

\* the total the platform reports for series n
SeriesTotal(ty, n) == IF ty = "Illust" THEN (25 * n) \div 2 ELSE 31 * n

\* the id of the i-th work of series n
SeriesWork(n, i) == 100 * n + i

\* the works the platform lists for a request of series n: `first` is the
\* position before the first listed work, limit the page size
SeriesPageWorks(ty, n, first, limit) ==
    LET total == SeriesTotal(ty, n)
        count == IF first >= total THEN 0
                 ELSE IF total - first < limit THEN total - first ELSE limit
    IN [ i \in 1..count |-> DecimalString(SeriesWork(n, first + i)) ]

\* the keys of the illusts, manga and novels maps of user u's profile;
\* NullableBody::None is <<>>, NullableBody::Some(map) is <<keys>>
UserArtworks(u) ==
    [ illusts |-> << { DecimalString(10 * u + 1) } >>,
      manga |-> IF u % 2 = 0 THEN << { DecimalString(10 * u + 2) } >> ELSE <<>>,
      novels |-> << { DecimalString(10 * u + 3), DecimalString(10 * u + 4) } >> ]

\* the orders in which a HashMap may yield a set of keys
RECURSIVE Orders(_)
Orders(S) ==
    IF S = {} THEN { <<>> }
    ELSE UNION { { <<x>> \o r : r \in Orders(S \ {x}) } : x \in S }

\* keys.map(|v| v.parse().unwrap()).map(PixivArtworkId::..) for one field
ListField(field, ty, keys) ==
    IF field = <<>> THEN <<>>
    ELSE [ i \in 1..Len(keys) |-> <<ty, parse_u64(keys[i]).value>> ]

\* the listing as it would be if the manga map were left out
list_without_manga(artworks, ki, km, kn) ==
    ListField(artworks.illusts, "Illust", ki)
      \o ListField(artworks.novels, "Novel", kn)

\* PixivUserArtworks::list: illusts, then manga, then novels; ki, km and kn are
\* the orders in which the three maps yield their keys
list(artworks, ki, km, kn) ==
    ListField(artworks.illusts, "Illust", ki)
      \o ListField(artworks.manga, "Illust", km)
      \o ListField(artworks.novels, "Novel", kn)

\* the task record an expansion loop spawns for an identifier
expansion_task(kind, ty, id) ==
    [ kind |-> kind, ty |-> ty, id |-> id, pc |-> "loop", page |-> 0,
      total |-> 1, offset |-> 0, requests |-> <<>>, sent |-> <<>> ]

Task == 1..Len(xtasks)

\* a failed fetch as it would be if the task went on instead of returning
on_fetch_error_continue(kind) == "loop"

\* Err(e) => { error!(..); return; }
on_fetch_error(kind) == "failed"

\* reslove_users, one iteration of the loop: rx.recv().await, join_set.spawn
reslove_users ==
    /\ users_pipeline # <<>>
    /\ xtasks' = Append(xtasks, expansion_task("user", "user", Head(users_pipeline)))
    /\ users_pipeline' = Tail(users_pipeline)
    /\ UNCHANGED << pipelineVars, pureVars, series_pipeline, cu_pc, remote >>

FieldKeys(field) == IF field = <<>> THEN {} ELSE field[1]

\* reslove_user: one fetch, then one send per listed artwork
reslove_user(t) ==
    /\ xtasks[t].kind = "user"
    /\ xtasks[t].pc = "loop"
    /\ \E ok \in BOOLEAN :
         IF ok
         THEN LET a == UserArtworks(xtasks[t].id)
              IN \E ki \in Orders(FieldKeys(a.illusts)),
                    km \in Orders(FieldKeys(a.manga)),
                    kn \in Orders(FieldKeys(a.novels)) :
                   /\ xtasks' = [xtasks EXCEPT ![t].pc = "done",
                                               ![t].requests = Append(@, 0),
                                               ![t].sent = @ \o list(a, ki, km, kn)]
                   /\ artworks_pipeline' = artworks_pipeline \o list(a, ki, km, kn)
         ELSE /\ xtasks' = [xtasks EXCEPT ![t].pc = on_fetch_error("user"),
                                          ![t].requests = Append(@, 0)]
              /\ UNCHANGED artworks_pipeline
    /\ UNCHANGED << config, posts0, posts, authors, files_pipeline, sync_pipeline,
                    main_pc, units, handshake, dtask, permits, ppc, pcur,
                    files_map, returned, pidx, lock, cache, openTx, plog, placed,
                    rstage, dstage >>
    /\ UNCHANGED << pureVars, users_pipeline, series_pipeline, cu_pc, remote >>

\* reslove_series, one iteration of the loop: recv().await, join_set.spawn
reslove_series ==
    /\ series_pipeline # <<>>
    /\ LET id == Head(series_pipeline)
       IN xtasks' = Append(xtasks, expansion_task("series", id[1], id[2]))
    /\ series_pipeline' = Tail(series_pipeline)
    /\ UNCHANGED << pipelineVars, pureVars, users_pipeline, cu_pc, remote >>

\* the page size of a series
series_limit(ty) == IF ty = "Illust" THEN IllustSeriesLimit ELSE NovelSeriesLimit

\* the loop condition as it would be with <= for <
series_continue_inclusive(page, limit, total) == page * limit <= total

\* `while page * limit < total`
series_continue(page, limit, total) == page * limit < total

\* what the request names: p={page} for an illustration series,
\* last_order={(page - 1) * limit} for a novel series
series_request(ty, page, limit) ==
    IF ty = "Illust" THEN page ELSE (page - 1) * limit

\* PixivArtworkId::Illust(work_id.parse().unwrap()) (or Novel) per listed work
MapArtworkId(ty, strs) ==
    [ i \in 1..Len(strs) |-> <<ty, parse_u64(strs[i]).value>> ]

\* reslove_series_single, one iteration of its loop: page += 1, the fetch, then
\* total = series.page.total and one send per listed work, then the loop
\* condition
reslove_series_single(t) ==
    /\ xtasks[t].kind = "series"
    /\ xtasks[t].pc = "loop"
    /\ LET task == xtasks[t]
           limit == series_limit(task.ty)
           page == task.page + 1
           works == SeriesPageWorks(task.ty, task.id, (page - 1) * limit, limit)
           total == SeriesTotal(task.ty, task.id)
           ids == MapArtworkId(task.ty, works)
       IN \E ok \in BOOLEAN :
            IF ok
            THEN /\ xtasks' =
                      [xtasks EXCEPT
                         ![t].page = page,
                         ![t].total = total,
                         ![t].requests =
                             Append(@, series_request(task.ty, page, limit)),
                         ![t].sent = @ \o ids,
                         ![t].pc = IF series_continue(page, limit, total)
                                   THEN "loop" ELSE "done"]
                 /\ artworks_pipeline' = artworks_pipeline \o ids
            ELSE /\ xtasks' =
                      [xtasks EXCEPT
                         ![t].page = page,
                         ![t].requests =
                             Append(@, series_request(task.ty, page, limit)),
                         ![t].pc = on_fetch_error("series")]
                 /\ UNCHANGED artworks_pipeline
    /\ UNCHANGED << config, posts0, posts, authors, files_pipeline, sync_pipeline,
                    main_pc, units, handshake, dtask, permits, ppc, pcur,
                    files_map, returned, pidx, lock, cache, openTx, plog, placed,
                    rstage, dstage >>
    /\ UNCHANGED << pureVars, users_pipeline, series_pipeline, cu_pc, remote >>

\* ------------------------------------------- Current-User Expansion Stage

\* user_status.user_id of the settings response
CurrentUser == 7

\* the totals the model draws the lists' reported totals from
Totals == { 0, 4, 100, 101 }

\* PixivFavoriteWorkId: Common(String) | Unreachable(u64)
Common(str) == [variant |-> "Common", str |-> str, num |-> 0]
Unreachable(num) == [variant |-> "Unreachable", str |-> <<>>, num |-> num]

\* the entries the platform lists for a request at `offset`: the list's
\* entries offset+1 .. offset+LIMIT, as far as the list goes
PageCount(total, offset) ==
    IF offset >= total THEN 0
    ELSE IF total - offset < LIMIT THEN total - offset ELSE LIMIT

\* response.works of a bookmarks page; every third bookmark is unreachable
FavoriteWorks(total, offset) ==
    [ i \in 1..PageCount(total, offset) |->
        IF (offset + i) % 3 = 0 THEN Unreachable(offset + i)
        ELSE Common(DecimalString(offset + i)) ]

\* response.users of a following page
FollowingUsers(total, offset) ==
    [ i \in 1..PageCount(total, offset) |-> offset + i ]

\* the tasks as they would be spawned if neither setting were consulted
current_user_spawns_all(cfg, user) ==
    << expansion_task("following", "following", user),
       expansion_task("favorite", "illusts", user),
       expansion_task("favorite", "novels", user) >>

\* the spawns of reslove_current_user: reslove_following if
\* config.followed_users, reslove_favorite of "illusts" and of "novels" if
\* config.favorite
current_user_spawns(cfg, user) ==
    (IF cfg.followed_users
     THEN << expansion_task("following", "following", user) >>
     ELSE <<>>)
      \o (IF cfg.favorite
          THEN << expansion_task("favorite", "illusts", user),
                  expansion_task("favorite", "novels", user) >>
          ELSE <<>>)

\* reslove_current_user up to the settings fetch: the early return when
\* neither list is asked for, else the request for the session's own user id
reslove_current_user ==
    /\ cu_pc = "start"
    /\ cu_pc' = IF ~(config.favorite \/ config.followed_users)
                THEN "returned" ELSE "settings"
    /\ UNCHANGED << pipelineVars, pureVars, users_pipeline, series_pipeline,
                    xtasks, remote >>

\* reslove_current_user, the answer of the settings fetch: the return on its
\* error, else the spawns
reslove_current_user_settings ==
    /\ cu_pc = "settings"
    /\ \E ok \in BOOLEAN :
         IF ~ok
         THEN /\ cu_pc' = "returned"
              /\ UNCHANGED xtasks
         ELSE /\ cu_pc' = "spawned"
              /\ xtasks' = xtasks \o current_user_spawns(config, CurrentUser)
    /\ UNCHANGED << pipelineVars, pureVars, users_pipeline, series_pipeline,
                    remote >>

\* reslove_current_user: join_set.join_all().await
reslove_current_user_join ==
    /\ cu_pc = "spawned"
    /\ \A t \in Task :
         xtasks[t].kind \in {"following", "favorite"}
            => xtasks[t].pc \in {"done", "failed"}
    /\ cu_pc' = "returned"
    /\ UNCHANGED << pipelineVars, pureVars, users_pipeline, series_pipeline,
                    xtasks, remote >>

\* `while offset <= total`
offset_continue(offset, total) == offset <= total

\* the match on artwork.id as it would be if the sentinel were enqueued too
favorite_entry_keep(ty, work) ==
    IF work.variant = "Common"
    THEN << <<ty, parse_u64(work.str).value>> >>
    ELSE << <<ty, work.num>> >>

\* the body of `for artwork in response.works`: nothing for an Unreachable id,
\* else the parsed id as Illust or Novel
favorite_entry(ty, work) ==
    IF work.variant = "Common"
    THEN << <<ty, parse_u64(work.str).value>> >>
    ELSE <<>>

\* the ids the loop over response.works sends, in order
favorite_ids(ty, works) ==
    LET entries == [ i \in 1..Len(works) |-> favorite_entry(ty, works[i]) ]
        kept == SelectSeq(entries, LAMBDA e : e # <<>>)
    IN [ i \in 1..Len(kept) |-> kept[i][1] ]

\* "illusts" => PixivArtworkId::Illust, "novels" => PixivArtworkId::Novel
favorite_type(ty) == IF ty = "illusts" THEN "Illust" ELSE "Novel"

\* reslove_favorite, one iteration of its loop: offset = page * LIMIT,
\* page += 1, the fetch, total = response.total, one send per reachable work,
\* then the loop condition
reslove_favorite(t) ==
    /\ xtasks[t].kind = "favorite"
    /\ xtasks[t].pc = "loop"
    /\ LET task == xtasks[t]
           offset == task.page * LIMIT
           total == remote[task.ty]
           ids == favorite_ids(favorite_type(task.ty), FavoriteWorks(total, offset))
       IN \E ok \in BOOLEAN :
            IF ok
            THEN /\ xtasks' =
                      [xtasks EXCEPT
                         ![t].offset = offset,
                         ![t].page = @ + 1,
                         ![t].total = total,
                         ![t].requests = Append(@, offset),
                         ![t].sent = @ \o ids,
                         ![t].pc = IF offset_continue(offset, total)
                                   THEN "loop" ELSE "done"]
                 /\ artworks_pipeline' = artworks_pipeline \o ids
            ELSE /\ xtasks' =
                      [xtasks EXCEPT
                         ![t].offset = offset,
                         ![t].page = @ + 1,
                         ![t].requests = Append(@, offset),
                         ![t].pc = on_fetch_error("favorite")]
                 /\ UNCHANGED artworks_pipeline
    /\ UNCHANGED << config, posts0, posts, authors, files_pipeline, sync_pipeline,
                    main_pc, units, handshake, dtask, permits, ppc, pcur,
                    files_map, returned, pidx, lock, cache, openTx, plog, placed,
                    rstage, dstage >>
    /\ UNCHANGED << pureVars, users_pipeline, series_pipeline, cu_pc, remote >>

\* reslove_following, one iteration of its loop
reslove_following(t) ==
    /\ xtasks[t].kind = "following"
    /\ xtasks[t].pc = "loop"
    /\ LET task == xtasks[t]
           offset == task.page * LIMIT
           total == remote["following"]
           ids == FollowingUsers(total, offset)
       IN \E ok \in BOOLEAN :
            IF ok
            THEN /\ xtasks' =
                      [xtasks EXCEPT
                         ![t].offset = offset,
                         ![t].page = @ + 1,
                         ![t].total = total,
                         ![t].requests = Append(@, offset),
                         ![t].sent = @ \o ids,
                         ![t].pc = IF offset_continue(offset, total)
                                   THEN "loop" ELSE "done"]
                 /\ users_pipeline' = users_pipeline \o ids
            ELSE /\ xtasks' =
                      [xtasks EXCEPT
                         ![t].offset = offset,
                         ![t].page = @ + 1,
                         ![t].requests = Append(@, offset),
                         ![t].pc = on_fetch_error("following")]
                 /\ UNCHANGED users_pipeline
    /\ UNCHANGED << pipelineVars, pureVars, series_pipeline, cu_pc, remote >>

\* ------------------------------------------------------- specifications

Resolve ==
    \/ resolve_main
    \/ resolve_artworks
    \/ \E k \in Unit : task_fetch(k)
    \/ \E k \in Unit : task_send(k)
    \/ resolve_artworks_return

Download ==
    \/ download_files
    \/ \E k \in Unit : acquire_permit(k)
    \/ \E k \in Unit : download_task(k)
    \/ download_join

Persist ==
    \/ archive_artworks_recv
    \/ archive_artworks_await
    \/ archive_artworks_author
    \/ archive_artworks_begin
    \/ archive_artworks_mkdir
    \/ archive_artworks_save
    \/ archive_artworks_commit
    \/ archive_artworks_return

\* the expansion stages of a configuration that names artworks only:
\* reslove_users and reslove_series receive nothing, reslove_current_user
\* returns before its settings fetch
Expand == reslove_current_user

Next == Expand \/ Resolve \/ Download \/ Persist

Spec == Init /\ [][Next]_vars

\* The resolution and download stages alone, for a configuration that names up
\* to MaxSeedsDL illustrations: every behaviour is a behaviour of the pipeline
\* in which archive_artworks has not been scheduled yet.
InitDL == InitWith(MaxSeedsDL, 0, MaxSeedsDL) /\ posts0 = {} /\ NoCall

NextDL == Expand \/ Resolve \/ Download

SpecDL == InitDL /\ [][NextDL]_vars

\* The user and series expansion stages, for a configuration that names up to
\* MaxUsers users and MaxSeries series: every behaviour is a behaviour of the
\* pipeline in which resolve_artworks has not been scheduled yet.
InitExpand ==
    /\ config \in { c \in [ illusts : { <<>> },
                            novels : { <<>> },
                            users : SeqsUpTo(1..NumUsers, MaxUsers),
                            illust_series : SeqsUpTo(0..NumSeries, MaxSeries),
                            novel_series : SeqsUpTo(0..NumSeries, MaxSeries),
                            favorite : { FALSE },
                            followed_users : { FALSE } ] :
                      Len(c.illust_series) + Len(c.novel_series) <= MaxSeries }
    /\ posts0 = {}
    /\ remote = [l \in FavLists |-> 0]
    /\ InitStages
    /\ NoCall

NextExpand ==
    \/ resolve_main
    \/ reslove_current_user
    \/ reslove_users
    \/ \E t \in Task : reslove_user(t)
    \/ reslove_series
    \/ \E t \in Task : reslove_series_single(t)

SpecExpand == InitExpand /\ [][NextExpand]_vars

\* The current-user expansion stage, for a configuration that asks for the
\* followed users, the favorites, both or neither.
InitFav ==
    /\ config \in [ illusts : { <<>> },
                     novels : { <<>> },
                     users : { <<>> },
                     illust_series : { <<>> },
                     novel_series : { <<>> },
                     favorite : BOOLEAN,
                     followed_users : BOOLEAN ]
    /\ posts0 = {}
    /\ remote \in [FavLists -> Totals]
    /\ InitStages
    /\ NoCall

NextFav ==
    \/ resolve_main
    \/ reslove_current_user
    \/ reslove_current_user_settings
    \/ reslove_current_user_join
    \/ \E t \in Task : reslove_following(t)
    \/ \E t \in Task : reslove_favorite(t)

SpecFav == InitFav /\ [][NextFav]_vars

\* The Seed Dispatcher alone, for a configuration that names up to MaxDispatch
\* ids of any kind.
SeedSet ==
    { <<"users", n>> : n \in 1..NumUsers }
      \cup { <<"illust_series", n>> : n \in 0..NumSeries }
      \cup { <<"novel_series", n>> : n \in 0..NumSeries }
      \cup { <<"illusts", n>> : n \in 1..NumArt }
      \cup { <<"novels", n>> : n \in 1..NumArt }

\* the ids of the command line that follow the option `field`
ConfigList(seeds, field) ==
    LET sel == SelectSeq(seeds, LAMBDA e : e[1] = field)
    IN [ i \in 1..Len(sel) |-> sel[i][2] ]

InitSeed ==
    /\ config \in { [ illusts |-> ConfigList(s, "illusts"),
                       novels |-> ConfigList(s, "novels"),
                       users |-> ConfigList(s, "users"),
                       illust_series |-> ConfigList(s, "illust_series"),
                       novel_series |-> ConfigList(s, "novel_series"),
                       favorite |-> FALSE,
                       followed_users |-> FALSE ] :
                     s \in SeqsUpTo(SeedSet, MaxDispatch) }
    /\ posts0 = {}
    /\ remote = [l \in FavLists |-> 0]
    /\ InitStages
    /\ NoCall

SpecSeed == InitSeed /\ [][resolve_main]_vars

\* The pipeline under the scheduler's guarantee that a task that can run is
\* eventually run and that every external call returns.
SpecLive == Spec /\ WF_vars(Next)

\* ------------------------------------------------------------ tag scoping

\* the tag names of the platform's responses that the model draws from
TagNames == { "R-18", "R-18G", "r-18", "Landscape", "landscape" }

\* PlatformId values
Platforms == { 1, 2 }

\* str::to_lowercase on the tag names
to_lowercase(name) ==
    CASE name = "R-18" -> "r-18"
      [] name = "R-18G" -> "r-18g"
      [] name = "Landscape" -> "landscape"
      [] OTHER -> name

\* the test as it would be if only "R-18" were matched
is_r18_only(name) == name = "R-18"

\* matches!(name.as_str(), "R-18" | "R-18G")
is_r18(name) == name \in { "R-18", "R-18G" }

\* PixivTags::into_tags: Option<PlatformId> is <<>> for None, <<p>> for Some(p)
into_tags(tags, platform) ==
    [ i \in 1..Len(tags) |->
        IF is_r18(tags[i])
        THEN [name |-> to_lowercase(tags[i]), platform |-> <<>>]
        ELSE [name |-> tags[i], platform |-> <<platform>>] ]

InitTags ==
    /\ InitWith(0, 0, 0)
    /\ call \in { << [fn |-> "into_tags", tags |-> t, platform |-> p] >> :
                     t \in SeqsUpTo(TagNames, MaxTags), p \in Platforms }
    /\ result = <<>>

into_tags_call ==
    /\ call # <<>>
    /\ call[1].fn = "into_tags"
    /\ result = <<>>
    /\ result' = << into_tags(call[1].tags, call[1].platform) >>
    /\ UNCHANGED << pipelineVars, expandVars, call >>

SpecTags == InitTags /\ [][into_tags_call]_vars

\* ------------------------------------------------------ response envelope

\* the JSON value of the envelope's body field: the field is absent, null, an
\* array (of items) or an object
Bodies ==
    { [kind |-> "absent", items |-> <<>>], [kind |-> "null", items |-> <<>>],
      [kind |-> "object", items |-> <<>>] }
      \cup { [kind |-> "array", items |-> a] : a \in SeqsUpTo({1, 2}, MaxItems) }

\* the body types the pipeline fetches: a struct (PixivArtwork, PixivSeries, ..)
\* or a Vec (Vec<PixivIllustPages>)
BodyTypes == { "struct", "vec" }

\* serde: whether the JSON value deserializes as T
deserialize_T(body, T) ==
    \/ T = "struct" /\ body.kind = "object"
    \/ T = "vec" /\ body.kind = "array"

\* serde, #[serde(untagged)] NullableBody<T>: Some(T) is tried first, then
\* None([(); 0]), which only the empty array matches; an absent field, null or
\* anything else is a deserialization error
deserialize_NullableBody(body, T) ==
    IF body.kind = "absent" THEN [ok |-> FALSE, variant |-> "missing field"]
    ELSE IF deserialize_T(body, T) THEN [ok |-> TRUE, variant |-> "Some"]
    ELSE IF body.kind = "array" /\ body.items = <<>>
         THEN [ok |-> TRUE, variant |-> "None"]
    ELSE [ok |-> FALSE, variant |-> "no variant matched"]

\* PixivResponse::downcast
downcast(response, variant) ==
    IF variant = "Some"
    THEN [ok |-> TRUE, value |-> <<response.body>>, err |-> <<>>]
    ELSE [ok |-> FALSE, value |-> <<>>,
          err |-> <<"InvalidResponse", response.message>>]

\* fetch::<T>: client.fetch::<PixivResponse<T>>(url).await.and_then(downcast)
fetch(response, T) ==
    LET parsed == deserialize_NullableBody(response.body, T)
    IN IF ~parsed.ok
       THEN [ok |-> FALSE, value |-> <<>>, err |-> <<"Decode", parsed.variant>>]
       ELSE downcast(response, parsed.variant)

InitEnvelope ==
    /\ InitWith(0, 0, 0)
    /\ call \in { << [fn |-> "fetch", T |-> T,
                       response |-> [error |-> e, message |-> m, body |-> b]] >> :
                     T \in BodyTypes, e \in BOOLEAN,
                     m \in {"", "message"}, b \in Bodies }
    /\ result = <<>>

fetch_call ==
    /\ call # <<>>
    /\ call[1].fn = "fetch"
    /\ result = <<>>
    /\ result' = << fetch(call[1].response, call[1].T) >>
    /\ UNCHANGED << pipelineVars, expandVars, call >>

SpecEnvelope == InitEnvelope /\ [][fetch_call]_vars

\* ---------------------------------------------------------- comments
\* Strings are sequences of characters.  The environment of a call says what
\* the platform answers: env.roots is the root list of the artwork, env.flags
\* the comments whose has_replies is set, env.rootOk whether the roots fetch
\* succeeds and env.failing the comment whose replies fetch fails (0: none).

\* what the replies endpoint lists for comment c
RepliesOf(c) == SelectSeq(<< c + 2, c + 3 >>, LAMBDA d : d <= NumComments)

\* PixivComment.user_name, .content and .stamp_id (<<>> is None) of comment c
user_name(c) == << "user", c >>
content_of(c) == IF c % 2 = 0 THEN << >> ELSE << "h", "i" >>
stamp_id_of(c) ==
    IF c = 2 THEN << << "4", "2" >> >>
    ELSE IF c % 4 = 3 THEN << << "7" >> >>
    ELSE << >>

\* format!("(Stamp {id})")
format_stamp(id) == << "(", "S", "t", "a", "m", "p", " " >> \o id \o << ")" >>

\* [..].join(sep)
RECURSIVE join(_, _)
join(parts, sep) ==
    IF parts = << >> THEN << >>
    ELSE IF Len(parts) = 1 THEN parts[1]
    ELSE parts[1] \o sep \o join(Tail(parts), sep)

\* Comment.text: [content, stamp_id.map(format).unwrap_or_default()].join(" ")
comment_text(content, stamp_id) ==
    join(<< content,
            IF stamp_id = << >> THEN << >> ELSE format_stamp(stamp_id[1]) >>,
         << " " >>)

\* the request of get_comments
comments_url(ty, is_root, id) ==
    [ family |-> ty, endpoint |-> IF is_root THEN "roots" ELSE "replies",
      id |-> id ]

\* the test as it would be if the replies of every comment were fetched
has_replies_always(c, env) == TRUE

\* comment.has_replies
has_replies(c, env) == c \in env.flags

\* comment::get_comments: the comment tree and the requests issued for it; a
\* failed fetch is logged and taken for the default, an empty list
RECURSIVE get_comments(_, _, _, _)
get_comments(id, is_novel, is_root, env) ==
    LET ty == IF is_novel THEN "novel" ELSE "illust"
        ok == IF is_root THEN env.rootOk ELSE id # env.failing
        comments == IF ~ok THEN << >>
                    ELSE IF is_root THEN env.roots ELSE RepliesOf(id)
        sub(c) == IF has_replies(c, env)
                  THEN get_comments(c, is_novel, FALSE, env)
                  ELSE [comments |-> << >>, requests |-> {}]
    IN [ comments |->
           [ i \in 1..Len(comments) |->
               [ user |-> user_name(comments[i]),
                 text |-> comment_text(content_of(comments[i]),
                                       stamp_id_of(comments[i])),
                 replies |-> sub(comments[i]).comments ] ],
         requests |->
           { comments_url(ty, is_root, id) }
             \cup UNION { sub(comments[i]).requests : i \in 1..Len(comments) } ]

\* the test as it would be if only the comment count were looked at
has_comment_count_only(artwork) == artwork.comment_count > 0

\* PixivArtwork::has_comment
has_comment(artwork) == artwork.comment_off = 0 /\ artwork.comment_count > 0

\* common::get_comments
common_get_comments(artwork, env) ==
    IF has_comment(artwork)
    THEN get_comments(artwork.id, artwork.kind = "Novel", TRUE, env)
    ELSE [comments |-> << >>, requests |-> {}]

InitComments ==
    /\ InitWith(0, 0, 0)
    /\ call \in { << [ fn |-> "get_comments",
                        artwork |-> [ id |-> 1, kind |-> k, comment_off |-> off,
                                      comment_count |-> n ],
                        env |-> [ roots |-> r, flags |-> f, rootOk |-> ok,
                                  failing |-> x ] ] >> :
                     k \in {"Illust", "Novel"}, off \in {0, 1}, n \in {0, 2},
                     r \in SeqsUpTo(1..MaxRoots, MaxRoots),
                     f \in SUBSET (1..NumComments), ok \in BOOLEAN,
                     x \in 0..NumComments }
    /\ result = <<>>

get_comments_call ==
    /\ call # <<>>
    /\ call[1].fn = "get_comments"
    /\ result = <<>>
    /\ result' = << common_get_comments(call[1].artwork, call[1].env) >>
    /\ UNCHANGED << pipelineVars, expandVars, call >>

SpecComments == InitComments /\ [][get_comments_call]_vars

\* --------------------------------------------------- content assembly

InitContents ==
    /\ InitWith(0, 0, 0)
    /\ call \in { << [ fn |-> "get_contents_and_thumb", id |-> <<k, n>>,
                        pagesOk |-> p, ugoiraOk |-> u ] >> :
                     k \in {"Illust", "Novel"}, n \in 1..NumWorks,
                     p \in BOOLEAN, u \in BOOLEAN }
    /\ result = <<>>

\* the spawned task from get_contents_and_thumb to the request list of its
\* file batch
get_contents_and_thumb_call ==
    /\ call # <<>>
    /\ call[1].fn = "get_contents_and_thumb"
    /\ result = <<>>
    /\ LET ct == get_contents_and_thumb(call[1].id, call[1].pagesOk,
                                        call[1].ugoiraOk)
       IN result' = << [ contents |-> ct.contents, thumb |-> ct.thumb,
                         panicked |-> ct.panicked,
                         batch |-> batch_files(ct.contents, ct.thumb) ] >>
    /\ UNCHANGED << pipelineVars, expandVars, call >>

SpecContents == InitContents /\ [][get_contents_and_thumb_call]_vars

\* ------------------------------------------------- archive_file, resize

\* the widths and heights the requests and the decoded images are drawn from
Dims == { 427, 600 }

\* the requests the calls are drawn from
ResizeRequests ==
    { [variant |-> "Image", url |-> <<"original", 1, 1>>, size |-> <<>>],
      [variant |-> "Ugoira", url |-> <<"ugoira", 2, 0>>, size |-> <<>>] }
      \cup { [variant |-> "ImageWithSize", url |-> <<"cover", 1, 0>>,
              size |-> <<w, h>>] : w \in Dims, h \in Dims }

\* ArchiveRequest::size: <<>> is None, << <<width, height>> >> is Some
request_size(request) ==
    IF request.variant = "ImageWithSize" THEN << request.size >> ELSE << >>

\* the test as it would be if only the widths were compared
resize_needed_width_only(image, size) == image[1] # size[1]

\* src_image.width() != width || src_image.height() != height
resize_needed(image, size) == image[1] # size[1] \/ image[2] # size[2]

\* archive_file step by step.  io.created: File::create succeeds; io.downloaded:
\* client.download succeeds; io.image: the decoded dimensions, <<>> when the
\* open or the decode fails; io.resize: "ok", "resize_panic" (Resizer::resize
\* fails and is unwrapped) or "save_failed" (dst_image.save fails).  resized
\* says whether dst_image.save(path) was called.
archive_file_steps(request, io) ==
    IF ~io.created \/ ~io.downloaded
    THEN [result |-> "None", resized |-> FALSE]
    ELSE LET size == request_size(request)
         IN IF size # << >> /\ io.image = << >>
            THEN [result |-> "Panic", resized |-> FALSE]
            ELSE IF size # << >> /\ resize_needed(io.image, size[1])
            THEN IF io.resize = "resize_panic"
                 THEN [result |-> "Panic", resized |-> FALSE]
                 ELSE IF io.resize = "save_failed"
                 THEN [result |-> "None", resized |-> TRUE]
                 ELSE [result |-> "Some", resized |-> TRUE]
            ELSE IF request.variant = "Ugoira"
            THEN [result |-> "Todo", resized |-> FALSE]
            ELSE [result |-> "Some", resized |-> FALSE]

InitResize ==
    /\ InitWith(0, 0, 0)
    /\ call \in { << [ fn |-> "archive_file", request |-> r,
                        io |-> [ created |-> c, downloaded |-> d, image |-> i,
                                 resize |-> z ] ] >> :
                     r \in ResizeRequests, c \in BOOLEAN, d \in BOOLEAN,
                     i \in { << >> } \cup (Dims \X Dims),
                     z \in { "ok", "resize_panic", "save_failed" } }
    /\ result = <<>>

archive_file_call ==
    /\ call # <<>>
    /\ call[1].fn = "archive_file"
    /\ result = <<>>
    /\ result' = << archive_file_steps(call[1].request, call[1].io) >>
    /\ UNCHANGED << pipelineVars, expandVars, call >>

SpecResize == InitResize /\ [][archive_file_call]_vars

\* ------------------------------------------------ save_file on the disk

\* how the calls of save_file end: create_dir_all fails, the open of the
\* destination fails, the open of the temp file fails before or after the
\* destination was opened (try_join! polls both), the copy fails, or all succeed
SaveOutcomes ==
    { "create_dir_failed", "dst_open_failed", "src_open_failed",
      "src_open_failed_after_dst", "copy_failed", "ok" }

\* the URLs and final paths the calls are drawn from
SaveUrls == { <<"original", 1, 1>>, <<"cover", 1, 0>> }

\* what the final path holds after save_file: dst is "absent" or "old" (a file
\* left by an earlier run) before the call.  The destination is opened with
\* create(true).write(true).truncate(true); save_file has no overwrite input.
save_file_write(dst, found, io) ==
    IF ~found THEN dst
    ELSE CASE io \in { "create_dir_failed", "dst_open_failed", "src_open_failed" }
                -> dst
           [] io = "src_open_failed_after_dst" -> "empty"
           [] io = "copy_failed" -> "partial"
           [] OTHER -> "new"

InitSave ==
    /\ InitWith(0, 0, 0)
    /\ call \in { << [ fn |-> "save_file", overwrite |-> o, dst |-> d,
                        file_map |-> fm, io |-> io,
                        pair |-> [path |-> <<url(Illust(1)), u>>, url |-> u] ] >> :
                     o \in BOOLEAN, d \in {"absent", "old"},
                     fm \in SUBSET SaveUrls, io \in SaveOutcomes,
                     u \in SaveUrls }
    /\ result = <<>>

save_file_call ==
    /\ call # <<>>
    /\ call[1].fn = "save_file"
    /\ result = <<>>
    /\ LET c == call[1]
           r == save_file(c.file_map, c.pair, c.io = "ok")
       IN result' = << [ ok |-> r.ok, file_map |-> r.file_map,
                         dst |-> save_file_write(c.dst, c.pair.url \in c.file_map,
                                                 c.io) ] >>
    /\ UNCHANGED << pipelineVars, expandVars, call >>

SpecSave == InitSave /\ [][save_file_call]_vars

\* ------------------------------------------------------------- history

\* what ends an iteration of archive_artworks
Terminal == { "handshake_failed", "author_failed", "post_failed", "mkdir_failed",
              "save_failed", "commit", "commit_failed" }

Committed(k) == "commit" \in plog[k]
Finished(k) == plog[k] \cap Terminal # {}

\* the tasks spawned for an id: each issues one metadata fetch
UnitsOf(aid) == { k \in Unit : units[k].id = aid }
\* the tasks that sent their file batch and their sync unit
Sent(k) == units[k].pc = "done"
CommitsOf(aid) == { k \in UnitsOf(aid) : Committed(k) }

Users == { UserOf(n) : n \in 1..NumArt }
\* the units that called the Storage Manager for an author, and those whose call
\* returned Ok
CallsOf(u) ==
    { k \in Unit : AuthorOf(k) = u
                   /\ plog[k] \cap {"author_created", "author_failed"} # {} }
OkCallsOf(u) == { k \in Unit : AuthorOf(k) = u /\ "author_created" \in plog[k] }

Range(q) == { q[i] : i \in 1..Len(q) }

\* ---------------------------------------------------------------- claims

\* C1: once the placement of one of a sync unit's files has failed, the unit's
\* transaction is never committed and find_post of its source URL returns
\* absent in every later state of the run.
C1_Atomicity ==
    \A k \in Unit :
        "save_failed" \in plog[k]
            => ~Committed(k) /\ ~find_post(posts, SourceOf(k))

\* C2: a post is committed only when its handshake resolved successfully and
\* every (final path, request) pair create_post returned for it has been placed,
\* and no file of a post is placed after its commit.
C2_MaterializationBarrier ==
    [][ \A k \in Unit :
          /\ (Committed(k)' /\ ~Committed(k))
               => /\ pcur = k
                  /\ handshake[k].state = "resolved"
                  /\ \A i \in 1..Len(returned) : returned[i].path \in placed
          /\ (Committed(k) /\ pcur = k) => placed' = placed ]_vars

C2_Witness ==
    \E k \in Unit : Committed(k) /\ "file_placed" \in plog[k]

C4_ConsumedOnce ==
    \A a \in SeedIds(config) :
        Cardinality(UnitsOf(a)) <= 1 /\ Cardinality(CommitsOf(a)) <= 1

\* C5: a sync unit whose handshake did not resolve successfully is skipped
\* entirely: no author call, no transaction, no post; the loop then waits for
\* the next sync unit.
C5_HandshakeFailure ==
    \A k \in Unit :
        handshake[k].state = "dropped"
            => /\ plog[k] \subseteq {"handshake_failed"}
               /\ k \notin openTx
               /\ pcur = k => ppc = "await"
               /\ "handshake_failed" \in plog[k] => pcur # k

C5_Witness ==
    \E k \in Unit, j \in Unit :
        /\ "handshake_failed" \in plog[k]
        /\ j # k
        /\ Committed(j)

\* the whole run is over: nothing queued, no task running, no unit held
Quiescent ==
    /\ main_pc = "done"
    /\ artworks_pipeline = <<>>
    /\ files_pipeline = <<>>
    /\ sync_pipeline = <<>>
    /\ \A k \in Unit : units[k].pc \in {"done", "failed"}
    /\ \A k \in Unit : dtask[k] \notin {"waiting", "running"}
    /\ ppc \in {"recv", "returned"}

C7_Ceiling == Cardinality(InFlight) <= SemaphorePermits

\* C8: when one request of a batch fails, the handshake is never resolved, no
\* mapping is delivered, and the unit's post is not persisted.
C8_BatchFailure ==
    \A k \in Unit :
        dtask[k] = "failed"
            => /\ handshake[k].state = "dropped"
               /\ handshake[k].map = {}
               /\ "transaction" \notin plog[k]
               /\ ~Committed(k)

C8_Witness ==
    \E k \in Unit :
        /\ dtask[k] = "failed"
        /\ Len(units[k].batch) > 1
        /\ Finished(k)

\* C9 as stated: a sync unit with an empty batch is committed.
C9_EmptyBatchCommitted ==
    \A k \in Unit :
        (Sent(k) /\ units[k].batch = <<>> /\ Finished(k)) => Committed(k)

\* C9 as amended: the handshake of an empty batch is resolved with an empty
\* mapping as soon as the download loop takes the batch, which is queued for as
\* long as the handshake is pending; the unit is not skipped, no directory is
\* made and no file placed for it, and it is committed unless author
\* resolution, post creation or the commit fails.
C9_EmptyBatch ==
    \A k \in Unit :
        (Sent(k) /\ units[k].batch = <<>>)
            => /\ handshake[k].state \in {"pending", "resolved"}
               /\ handshake[k].map = {}
               /\ handshake[k].state = "pending" => k \in Range(files_pipeline)
               /\ plog[k] \cap {"handshake_failed", "mkdir_failed", "save_failed",
                                "file_placed"} = {}
               /\ Finished(k)
                    => \/ Committed(k)
                       \/ plog[k] \cap {"author_failed", "post_failed",
                                        "commit_failed"} # {}

C9_Witness ==
    \E k \in Unit : Sent(k) /\ units[k].batch = <<>> /\ Committed(k)

\* C10: at most one transaction is open, it is the one of the unit the loop
\* holds, and none is open when the loop receives or awaits a sync unit.
C10_SerializedPersistence ==
    /\ Cardinality(openTx) <= 1
    /\ openTx # {} => openTx = {pcur} /\ lock = "persist"
    /\ ppc \in {"recv", "await", "author", "begin"} => openTx = {} /\ lock = "free"

C10_Witness ==
    \E k \in Unit, j \in Unit :
        /\ k # j
        /\ "transaction" \in plog[k]
        /\ Finished(k)
        /\ j \in openTx

\* a fetch made while resolving the unit's artwork failed: the metadata call
\* (the task returned), or the page-list or ugoira_meta call (the only returns
\* of get_contents_and_thumb with an empty content list)
FetchFailed(k) ==
    \/ units[k].pc = "failed"
    \/ Sent(k) /\ units[k].contents = <<>>

\* C11: a unit for which a fetch made while resolving its artwork failed is
\* dropped: no post is committed for it in this run.
C11_NothingCommitted ==
    \A k \in Unit : FetchFailed(k) => ~Committed(k)

\* C12: no error on one unit ends a stage's loop: neither the Persistence loop
\* nor the Download Stage is ever terminated by a panic.
C12_NoEscalation ==
    /\ ppc # "panicked"
    /\ dstage # "panicked"

\* the unit's batch holds a request of the Ugoira variant
HasUgoira(k) ==
    \E i \in 1..Len(units[k].batch) : units[k].batch[i].variant = "Ugoira"

\* C13: a batch with an Ugoira request never succeeds and its post is never
\* committed, and (when no image fails to decode) the downloads of the other
\* artworks are not affected: none of them is cancelled.
C13_Unimplemented ==
    /\ \A k \in Unit :
          HasUgoira(k) => /\ handshake[k].state # "resolved"
                          /\ dtask[k] # "done"
                          /\ ~Committed(k)
    /\ (\A k \in Unit : dtask[k] # "panicked")
          => \A j \in Unit : ~HasUgoira(j) => dtask[j] # "cancelled"

\* every stage has left its loop and returned
Drained ==
    /\ rstage = "returned"
    /\ dstage = "returned"
    /\ ppc = "returned"

\* C20: every stage eventually terminates with all its work drained.
C20_Drain == <>Drained

\* the same, for the runs in which no stage panics
C20_DrainUnlessPanic == <>(Drained \/ ppc = "panicked" \/ dstage = "panicked")

\* C18: the output has one tag per input tag in the same order; "R-18" and
\* "R-18G" become "r-18" and "r-18g" with no platform scope, every other tag
\* keeps its name and is scoped to the current platform.
C18_TagScoping ==
    (call # <<>> /\ result # <<>> /\ call[1].fn = "into_tags")
        => LET tags == call[1].tags
               out == result[1]
           IN /\ Len(out) = Len(tags)
              /\ \A i \in 1..Len(tags) :
                    CASE tags[i] = "R-18" ->
                           out[i] = [name |-> "r-18", platform |-> <<>>]
                      [] tags[i] = "R-18G" ->
                           out[i] = [name |-> "r-18g", platform |-> <<>>]
                      [] OTHER ->
                           out[i] = [name |-> tags[i],
                                     platform |-> <<call[1].platform>>]

C18_Witness ==
    /\ call # <<>>
    /\ result # <<>>
    /\ call[1].fn = "into_tags"
    /\ call[1].tags = << "R-18", "landscape", "R-18G" >>

\* C19: when the envelope has error = true, or its body is null, absent or
\* empty, fetch returns the failure that carries the envelope's message.
C19_Envelope ==
    (call # <<>> /\ result # <<>> /\ call[1].fn = "fetch")
        => LET response == call[1].response
           IN (\/ response.error
               \/ response.body.kind \in {"null", "absent"}
               \/ response.body.kind = "array" /\ response.body.items = <<>>)
                 => /\ ~result[1].ok
                    /\ result[1].err = <<"InvalidResponse", response.message>>

\* the number of page requests of a series with total T and page size L
PagesOf(T, L) == IF T = 0 THEN 1 ELSE (T + L - 1) \div L

\* the page size by series type
PageSize(ty) == IF ty = "Illust" THEN 12 ELSE 30

\* the i-th request of a series: page number i, or offset (i - 1) * L
NthRequest(ty, i) == IF ty = "Illust" THEN i ELSE (i - 1) * PageSize(ty)

\* the task issued every request of its identifier and forwarded every id the
\* platform lists for it
FullyExpanded(task) ==
    CASE task.kind = "series" ->
           /\ task.requests =
                [ i \in 1..PagesOf(SeriesTotal(task.ty, task.id), PageSize(task.ty))
                    |-> NthRequest(task.ty, i) ]
           /\ task.sent =
                [ i \in 1..SeriesTotal(task.ty, task.id)
                    |-> <<task.ty, SeriesWork(task.id, i)>> ]
      [] task.kind = "user" ->
           /\ task.requests = << 0 >>
           /\ Len(task.sent) = IF task.id % 2 = 0 THEN 4 ELSE 3
           /\ Range(task.sent) =
                { <<"Illust", 10 * task.id + 1>>, <<"Novel", 10 * task.id + 3>>,
                  <<"Novel", 10 * task.id + 4>> }
                  \cup (IF task.id % 2 = 0
                        THEN { <<"Illust", 10 * task.id + 2>> } ELSE {})
      [] task.kind = "favorite" ->
           task.sent =
             SelectSeq([ i \in 1..remote[task.ty] |-> <<favorite_type(task.ty), i>> ],
                       LAMBDA e : e[2] % 3 # 0)
      [] OTHER ->
           task.sent = [ i \in 1..remote["following"] |-> i ]

\* C14: a task whose fetch failed stops for good, without another request; a
\* task of any other identifier, of the same stage or of another one, that has
\* finished has issued all its requests and forwarded every id it discovered.
C14_Isolation ==
    [][ \A t \in Task :
          /\ xtasks[t].pc = "failed" => xtasks'[t] = xtasks[t]
          /\ xtasks'[t].pc = "done"
               => /\ FullyExpanded(xtasks'[t])
                  /\ xtasks'[t].kind # "following"
                       => Range(xtasks'[t].sent) \subseteq Range(artworks_pipeline') ]_vars

C14_Witness ==
    \E a \in Task, b \in Task, c \in Task :
        /\ xtasks[a].kind = "series"
        /\ xtasks[a].pc = "failed"
        /\ Len(xtasks[a].requests) = 2
        /\ xtasks[b].kind = "series"
        /\ xtasks[b].pc = "done"
        /\ Len(xtasks[b].requests) = 3
        /\ xtasks[c].kind = "user"
        /\ xtasks[c].pc = "done"

\* C15: a series task issues the requests 1, 2, 3, ... (illustration series)
\* or 0, L, 2L, ... (text series), never more than max(1, ceil(T/L)) of them,
\* and it has issued exactly that many when it stops after its last page; for
\* T = 25 and L = 12 these are exactly the three requests 1, 2, 3.
C15_SeriesPagination ==
    \A t \in Task :
        xtasks[t].kind = "series"
            => LET task == xtasks[t]
                   N == PagesOf(SeriesTotal(task.ty, task.id), PageSize(task.ty))
               IN /\ Len(task.requests) <= N
                  /\ \A i \in 1..Len(task.requests) :
                        task.requests[i] = NthRequest(task.ty, i)
                  /\ task.pc = "done" => Len(task.requests) = N
                  /\ task.pc = "loop" => Len(task.requests) < N
                  /\ (task.pc = "done" /\ task.ty = "Illust"
                        /\ SeriesTotal(task.ty, task.id) = 25)
                       => task.requests = << 1, 2, 3 >>

C15_Witness ==
    \E a \in Task, b \in Task :
        /\ xtasks[a].kind = "series"
        /\ xtasks[a].ty = "Illust"
        /\ xtasks[a].pc = "done"
        /\ xtasks[a].requests = << 1, 2, 3 >>
        /\ xtasks[b].kind = "series"
        /\ xtasks[b].ty = "Novel"
        /\ xtasks[b].pc = "done"
        /\ xtasks[b].requests = << 0, 30, 60 >>

\* the total the platform reports for the task's list
TotalOf(task) ==
    IF task.kind = "following" THEN remote["following"] ELSE remote[task.ty]

\* C16: a following or favorites task issues no request whose offset is at or
\* past the reported total, other than the first request at offset 0.
C16_NoRequestPastTotal ==
    \A t \in Task :
        xtasks[t].kind \in {"following", "favorite"}
            => \A i \in 1..Len(xtasks[t].requests) :
                   \/ xtasks[t].requests[i] = 0
                   \/ xtasks[t].requests[i] < TotalOf(xtasks[t])

\* the offsets of the task's requests that were answered
Answered(task) ==
    { task.requests[i] :
        i \in 1..(IF task.pc = "failed" THEN Len(task.requests) - 1
                  ELSE Len(task.requests)) }

\* C17: of every bookmarks page a favorites task received, no entry with a
\* numeric id is sent and every entry with a string id is sent, as Illust from
\* the illusts list and as Novel from the novels list; the task goes on to the
\* next page, stopping only when its offset has passed the total.
C17_Unreachable ==
    \A t \in Task :
        xtasks[t].kind = "favorite"
            => LET task == xtasks[t]
                   ty == IF task.ty = "illusts" THEN "Illust" ELSE "Novel"
               IN /\ \A o \in Answered(task) :
                        \A i \in 1..Len(FavoriteWorks(remote[task.ty], o)) :
                           LET work == FavoriteWorks(remote[task.ty], o)[i]
                           IN IF work.variant = "Unreachable"
                              THEN \A e \in Range(task.sent) : e[2] # work.num
                              ELSE <<ty, o + i>> \in Range(task.sent)
                  /\ \A e \in Range(task.sent) : e[1] = ty
                  /\ Range(task.sent) \subseteq Range(artworks_pipeline)
                  /\ task.pc = "done"
                       => task.requests[Len(task.requests)] > remote[task.ty]

C17_Witness ==
    \E t \in Task :
        /\ xtasks[t].kind = "favorite"
        /\ xtasks[t].ty = "novels"
        /\ xtasks[t].pc = "done"
        /\ remote["novels"] = 101
        /\ <<"Novel", 101>> \in Range(xtasks[t].sent)
        /\ Len(xtasks[t].sent) = 68

\* the items appended to a channel by a step
Added(queue, queue2) == SubSeq(queue2, Len(queue) + 1, Len(queue2))

\* the number of occurrences of x in a sequence
Count(seq, x) == Cardinality({ i \in 1..Len(seq) : seq[i] = x })

C22_OverwriteFlag ==
    (result # <<>> /\ call[1].fn = "save_file"
       /\ ~call[1].overwrite /\ call[1].dst = "old")
        => result[1].dst = "old"

\* the comments of a tree, at every depth
RECURSIVE Nodes(_)
Nodes(comments) ==
    { comments[i] : i \in 1..Len(comments) }
      \cup UNION { Nodes(comments[i].replies) : i \in 1..Len(comments) }

\* the platform's id of a comment of the tree
IdOf(node) == node.user[2]

\* the ids of a comment list, in its order
IdsOf(comments) == [ i \in 1..Len(comments) |-> IdOf(comments[i]) ]

\* the call of get_comments has returned
CommentsReturned == result # <<>> /\ call[1].fn = "get_comments"

\* C23: the text of a comment without a stamp is exactly its content, and the
\* text of a comment with empty content and stamp id 42 is exactly "(Stamp 42)".
C23_CommentText ==
    CommentsReturned
        => \A node \in Nodes(result[1].comments) :
              /\ stamp_id_of(IdOf(node)) = << >>
                   => node.text = content_of(IdOf(node))
              /\ (content_of(IdOf(node)) = << >>
                    /\ stamp_id_of(IdOf(node)) = << << "4", "2" >> >>)
                   => node.text = << "(", "S", "t", "a", "m", "p", " ",
                                     "4", "2", ")" >>

\* C29: the roots request of the artwork is issued iff comment_off is 0 and
\* comment_count is above 0; otherwise no request is issued and the comment
\* list is empty.
C29_CommentFetch ==
    CommentsReturned
        => LET artwork == call[1].artwork
               allowed == artwork.comment_off = 0 /\ artwork.comment_count > 0
           IN /\ allowed
                   <=> \E r \in result[1].requests :
                          r.endpoint = "roots" /\ r.id = artwork.id
              /\ ~allowed
                   => result[1].requests = {} /\ result[1].comments = << >>

C29_Witness ==
    /\ CommentsReturned
    /\ call[1].artwork.comment_off = 0
    /\ call[1].artwork.comment_count = 2
    /\ result[1].requests # {}
    /\ Len(result[1].comments) = 2

\* C30: a replies request is issued for a comment of the tree iff its
\* has_replies is set, and for no other comment; every request uses the
\* endpoint family of the artwork; the root level is the fetched root list in
\* its order, and the replies of a comment are the fetched reply list in its
\* order, or empty when the comment has no replies flag or its fetch failed.
C30_CommentRecursion ==
    CommentsReturned
        => LET env == call[1].env
               tree == result[1].comments
               requests == result[1].requests
               replied == { r.id : r \in { q \in requests : q.endpoint = "replies" } }
           IN /\ \A node \in Nodes(tree) :
                    /\ IdOf(node) \in replied <=> IdOf(node) \in env.flags
                    /\ IdsOf(node.replies) =
                         IF IdOf(node) \in env.flags /\ IdOf(node) # env.failing
                         THEN RepliesOf(IdOf(node)) ELSE << >>
              /\ replied \subseteq { IdOf(node) : node \in Nodes(tree) }
              /\ \A r \in requests :
                    r.family = IF call[1].artwork.kind = "Novel"
                               THEN "novel" ELSE "illust"
              /\ requests # {}
                   => IdsOf(tree) = IF env.rootOk THEN env.roots ELSE << >>

C30_Witness ==
    /\ CommentsReturned
    /\ call[1].artwork.kind = "Novel"
    /\ call[1].env.failing = 2
    /\ 2 \in call[1].env.flags
    /\ IdsOf(result[1].comments) = << 1, 2 >>
    /\ result[1].comments[2].replies = << >>
    /\ IdsOf(result[1].comments[1].replies) = << 3, 4 >>
    /\ IdsOf(result[1].comments[1].replies[1].replies) = << 5 >>
    /\ [family |-> "novel", endpoint |-> "replies", id |-> 3] \in result[1].requests

\* C24: a request without a target size is never rewritten; a sized request
\* whose decoded width and height equal the target is not rewritten; the
\* resized image is written only when the width or the height differs, and it
\* is written whenever they differ and the download, the decode and the resize
\* succeeded.
C24_ResizeSkip ==
    (result # <<>> /\ call[1].fn = "archive_file")
        => LET request == call[1].request
               io == call[1].io
               sized == request.variant = "ImageWithSize"
           IN /\ ~sized => ~result[1].resized
              /\ (sized /\ io.image = request.size) => ~result[1].resized
              /\ result[1].resized
                   => /\ sized
                      /\ io.image # << >>
                      /\ io.image[1] # request.size[1]
                            \/ io.image[2] # request.size[2]
              /\ ( /\ sized
                    /\ io.created
                    /\ io.downloaded
                    /\ io.image # << >>
                    /\ io.image # request.size
                    /\ io.resize # "resize_panic" )
                   => result[1].resized

C24_Witness ==
    /\ result # <<>>
    /\ call[1].fn = "archive_file"
    /\ call[1].request.size = << 427, 600 >>
    /\ call[1].io.image = << 427, 427 >>
    /\ result[1] = [result |-> "Some", resized |-> TRUE]

\* the units whose file batch was sent: it is queued or the download stage took it
BatchSent == Range(files_pipeline) \cup { k \in Unit : dtask[k] # "none" }

\* the units whose sync unit was sent: it is queued, held by archive_artworks,
\* or archive_artworks has finished with it
SyncSent ==
    Range(sync_pipeline) \cup { k \in Unit : pcur = k \/ plog[k] # {} }

\* C25: a task whose metadata fetch failed sends no file batch and no sync
\* unit, and nothing is done in the store for it; the file batches sent and the
\* sync units sent are those of the same tasks, one each, and once
\* resolve_artworks has returned they are those of all the tasks whose metadata
\* fetch succeeded.
C25_MetadataFailure ==
    /\ \A k \in Unit :
          units[k].pc = "failed"
              => /\ k \notin BatchSent
                 /\ k \notin SyncSent
                 /\ plog[k] = {}
                 /\ k \notin openTx
    /\ Len(files_pipeline) = Cardinality(Range(files_pipeline))
    /\ Len(sync_pipeline) = Cardinality(Range(sync_pipeline))
    /\ BatchSent = SyncSent
    /\ \A k \in BatchSent : units[k].pc = "done"
    /\ rstage = "returned"
          => BatchSent = { k \in Unit : units[k].pc # "failed" }

C25_Witness ==
    /\ rstage = "returned"
    /\ \E k \in Unit, j \in Unit :
          /\ units[k].pc = "failed"
          /\ units[j].pc = "done"
          /\ Finished(j)

\* C26 as stated: once resolve_artworks has returned, the producer half of
\* every handshake that was created has travelled in a file batch and its
\* consumer half in a sync unit.
C26_ExactlyOneBatch ==
    rstage = "returned"
        => \A k \in Unit : k \in BatchSent /\ k \in SyncSent

\* C26 as amended: every task has one handshake; its unit is in the files
\* channel at most once and in the sync channel at most once, and in both once
\* the task has sent; a handshake that was resolved or dropped never changes again;
\* archive_artworks awaits the handshake of a unit only once, and it is
\* resolved or dropped when the unit's persistence attempt ends; the mapping
\* archive_artworks holds for a unit is the mapping of that unit's own batch.
C26_HandshakeSingleUse ==
    [][ /\ Len(handshake) = Len(units)
        /\ \A k \in Unit :
              /\ Count(files_pipeline, k) <= 1
              /\ Count(files_pipeline, k) = 1 => dtask[k] = "none"
              /\ Count(sync_pipeline, k) <= 1
              /\ Count(sync_pipeline, k) = 1 => (pcur # k /\ plog[k] = {})
              /\ Sent(k) => (k \in BatchSent /\ k \in SyncSent)
              /\ handshake[k].state # "pending" => handshake'[k] = handshake[k]
              /\ handshake[k].state = "resolved"
                   => handshake[k].map = full_mapping(units[k].batch)
              /\ (pcur = k /\ ppc = "await" /\ ppc' # "await") => plog[k] = {}
              /\ Finished(k)' => handshake'[k].state # "pending"
              /\ (pcur = k /\ ppc \notin {"recv", "await"})
                   => files_map \subseteq full_mapping(units[k].batch) ]_vars

C26_Witness ==
    \E k \in Unit, j \in Unit :
        /\ k # j
        /\ Committed(k)
        /\ handshake[k].state = "resolved"
        /\ handshake[k].map # {}
        /\ handshake[j].state = "dropped"
        /\ "handshake_failed" \in plog[j]

\* the call of get_contents_and_thumb has returned
ContentsReturned == result # <<>> /\ call[1].fn = "get_contents_and_thumb"

\* C27: for an Illust or Manga work whose page list of n pages was fetched,
\* the contents are the description text followed by n files in page order,
\* each the page's original URL; the thumb is the first page; for n = 0 there
\* is no thumb and the request list of the batch is empty.
C27_IllustContents ==
    ( /\ ContentsReturned
      /\ call[1].id[1] = "Illust"
      /\ IllustTypeOf(call[1].id[2]) \in {"Illust", "Manga"}
      /\ call[1].pagesOk )
        => LET n == NumPages(call[1].id[2])
               contents == result[1].contents
           IN /\ Len(contents) = n + 1
              /\ contents[1] = [kind |-> "Text", text |-> "description"]
              /\ \A i \in 1..n :
                    /\ contents[i + 1].kind = "File"
                    /\ contents[i + 1].meta.data =
                         [ variant |-> "Image",
                           url |-> <<"original", call[1].id[2], i>>,
                           size |-> <<>> ]
              /\ result[1].thumb =
                   IF n = 0 THEN << >> ELSE << contents[2].meta >>
              /\ n = 0 => result[1].batch = << >>

C27_Witness ==
    /\ ContentsReturned
    /\ call[1].id[1] = "Illust"
    /\ IllustTypeOf(call[1].id[2]) = "Manga"
    /\ call[1].pagesOk
    /\ Len(result[1].contents) = 3
    /\ result[1].thumb = << result[1].contents[2].meta >>

\* C28: for a Novel work the contents are the description text, the body
\* text, then one file built from the cover URL with target size 427x600 and
\* the cover file name.
C28_NovelContents ==
    (ContentsReturned /\ call[1].id[1] = "Novel")
        => result[1].contents =
             << [kind |-> "Text", text |-> "description"],
                [kind |-> "Text", text |-> "content"],
                [ kind |-> "File",
                  meta |-> [ filename |-> <<"cover.jpg", 0, 0>>,
                             data |-> [ variant |-> "ImageWithSize",
                                        url |-> <<"cover", call[1].id[2], 0>>,
                                        size |-> <<427, 600>> ] ] ] >>

\* the ids expected of the keys of one id set of a profile, under a tag
KeysAs(field, ty) == { <<ty, parse_u64(key).value>> : key \in FieldKeys(field) }

\* C31: a user task issues at most one listing request; when the listing
\* succeeded the task has issued exactly one request and has sent exactly one
\* id per key of the three id sets, the keys of the illusts and manga sets as
\* Illust and the keys of the novels set as Novel, nothing else; an absent set
\* adds nothing and the task still finishes; a task whose listing failed has
\* sent nothing.
C31_UserExpansion ==
    \A t \in Task :
        xtasks[t].kind = "user"
            => LET task == xtasks[t]
                   a == UserArtworks(task.id)
                   expected == KeysAs(a.illusts, "Illust")
                                 \cup KeysAs(a.manga, "Illust")
                                 \cup KeysAs(a.novels, "Novel")
               IN /\ Len(task.requests) <= 1
                  /\ task.pc \in {"loop", "done", "failed"}
                  /\ task.pc = "loop" => task.requests = <<>> /\ task.sent = <<>>
                  /\ task.pc = "failed" => task.sent = <<>>
                  /\ task.pc = "done"
                       => /\ Len(task.requests) = 1
                          /\ Range(task.sent) = expected
                          /\ \A e \in expected : Count(task.sent, e) = 1
                          /\ Len(task.sent)
                               = Cardinality(FieldKeys(a.illusts))
                                   + Cardinality(FieldKeys(a.manga))
                                   + Cardinality(FieldKeys(a.novels))
                          /\ Range(task.sent) \subseteq Range(artworks_pipeline)

C31_Witness ==
    \E a \in Task, b \in Task :
        /\ xtasks[a].kind = "user"
        /\ xtasks[a].pc = "done"
        /\ UserArtworks(xtasks[a].id).manga = <<>>
        /\ Len(xtasks[a].sent) = 3
        /\ xtasks[b].kind = "series"
        /\ xtasks[b].pc = "done"

\* the items of a channel that came from the tasks of one kind
SentBy(kind) ==
    UNION { Range(xtasks[t].sent) : t \in { u \in Task : xtasks[u].kind = kind } }

\* C32: when neither the favorites nor the followed users are asked for, the
\* stage never issues its settings request, spawns no task and nothing reaches
\* the users or artworks channel; when the settings request fails the stage
\* returns without a task, so nothing is sent; a following task exists and
\* user ids reach the users channel only when the followed users are asked
\* for, and they go to the users channel only; favorites tasks exist and
\* bookmark ids reach the artworks channel only when the favorites are asked
\* for, and they go to the artworks channel only.
C32_Gating ==
    /\ [](/\ ~(config.favorite \/ config.followed_users)
               => /\ cu_pc \in {"start", "returned"}
                  /\ xtasks = <<>>
          /\ xtasks = <<>>
               => /\ Range(users_pipeline) \subseteq Range(config.users)
                  /\ Range(artworks_pipeline)
                       \subseteq Range(MapIllust(config.illusts)
                                         \o MapNovel(config.novels))
          /\ \A t \in Task :
                /\ xtasks[t].kind = "following" => config.followed_users
                /\ xtasks[t].kind = "favorite" => config.favorite
          /\ Range(users_pipeline) \subseteq Range(config.users) \cup SentBy("following")
          /\ Range(artworks_pipeline)
               \subseteq Range(MapIllust(config.illusts) \o MapNovel(config.novels))
                           \cup SentBy("favorite")
          /\ SentBy("following") \subseteq Range(users_pipeline)
          /\ SentBy("favorite") \subseteq Range(artworks_pipeline)
          /\ cu_pc = "spawned" =>
                /\ config.followed_users
                     => Cardinality({ t \in Task : xtasks[t].kind = "following" }) = 1
                /\ config.favorite
                     => { xtasks[t].ty : t \in { u \in Task : xtasks[u].kind = "favorite" } }
                          = { "illusts", "novels" })
    /\ [][ /\ (cu_pc = "settings" /\ cu_pc' = "returned")
               => /\ xtasks' = xtasks
                  /\ users_pipeline' = users_pipeline
                  /\ artworks_pipeline' = artworks_pipeline
           /\ (cu_pc = "returned" /\ xtasks = <<>>)
               => /\ xtasks' = xtasks
                  /\ cu_pc' = cu_pc ]_vars

C32_Witness ==
    /\ config.followed_users
    /\ ~config.favorite
    /\ cu_pc = "returned"
    /\ remote["following"] = 4
    /\ users_pipeline = << 1, 2, 3, 4 >>
    /\ artworks_pipeline = <<>>

\* the mapping the handshake of unit k resolved with holds the URL of every
\* request of the batch sent for k
FullMapping(k) ==
    /\ handshake[k].state = "resolved"
    /\ \A i \in 1..Len(units[k].batch) :
          request_url(units[k].batch[i]) \in handshake[k].map

\* C33: whenever Persistence is about to place a (final path, request) pair of
\* a unit whose handshake resolved with a mapping that holds the URL of every
\* request of its batch, the mapping it holds still has a temp file for the
\* pair's URL; this is so even when two pairs of the post carry the same URL.
C33_TempFileFound ==
    (ppc = "save" /\ pidx < Len(returned) /\ FullMapping(pcur))
        => returned[pidx + 1].url \in files_map

\* the ends of an iteration that abort a unit after its author was resolved
Aborts == { "post_failed", "mkdir_failed", "save_failed", "commit_failed" }

\* C34: a unit whose persistence was aborted after its author was resolved
\* leaves nothing in the Storage Manager: its post is not committed and the
\* author record its create-or-lookup call created is not there.
C34_AbortLeavesNothing ==
    \A k \in Unit :
        (plog[k] \cap Aborts # {} /\ "author_created" \in plog[k])
            => /\ ~Committed(k)
               /\ AuthorOf(k) \notin authors

\* C35: the step in which the author call of a unit fails changes neither the
\* dedup cache nor the Storage Manager and opens no transaction, and nothing
\* else ever happens for that unit: no transaction, no post; a unit whose
\* external user id is not in the cache when its author is resolved makes a
\* call, also after an earlier unit's call for the same id failed, and a unit
\* whose id is in the cache makes none; the cache changes only by the
\* insertion of an id that was not in it, after a successful call, so no entry
\* is ever replaced or removed.
C35_AuthorFailure ==
    /\ [](\A k \in Unit :
             "author_failed" \in plog[k]
                => /\ plog[k] = { "author_failed" }
                   /\ k \notin openTx
                   /\ pcur # k
                   /\ ~Committed(k))
    /\ [][ /\ \A k \in Unit :
                ("author_failed" \in plog'[k] /\ "author_failed" \notin plog[k])
                   => /\ pcur = k
                      /\ AuthorOf(k) \notin cache
                      /\ cache' = cache
                      /\ authors' = authors
                      /\ posts' = posts
                      /\ openTx' = openTx
                      /\ lock' = lock
           /\ (ppc = "author" /\ ppc' # "author")
                => IF AuthorOf(pcur) \in cache
                   THEN /\ plog' = plog
                        /\ ppc' = "begin"
                   ELSE plog'[pcur] \cap { "author_created", "author_failed" } # {}
           /\ cache \subseteq cache'
           /\ cache' # cache
                => /\ ppc = "author"
                   /\ AuthorOf(pcur) \notin cache
                   /\ cache' = cache \cup { AuthorOf(pcur) }
                   /\ "author_created" \in plog'[pcur] ]_vars

C35_Witness ==
    \E j \in Unit, k \in Unit :
        /\ j # k
        /\ AuthorOf(j) = AuthorOf(k)
        /\ plog[j] = { "author_failed" }
        /\ "author_created" \in plog[k]
        /\ Committed(k)
        /\ cache = { AuthorOf(k) }

\* C36: the Manager lock is held exactly while a transaction is open, and only
\* the unit Persistence holds has one; Persistence does not hold the lock at
\* the points where it requests it; the step of resolve_artworks that runs
\* find_post is taken only when the lock is free and no transaction is open,
\* and it cannot be taken while Persistence holds the lock; while Persistence
\* holds the lock, every resolution task of another unit that is at a fetch
\* and every download of another unit that waits for a permit that is
\* available or has one can take its step.
C36_LockExclusion ==
    /\ [](/\ lock = "persist" <=> openTx # {}
          /\ openTx \subseteq { pcur }
          /\ ppc \in { "recv", "await", "author", "begin" } => lock = "free"
          /\ ppc \in { "mkdir", "save", "commit" } => lock = "persist"
          /\ lock = "persist"
               => /\ ~ENABLED resolve_artworks
                  /\ \A k \in Unit \ { pcur } :
                        /\ units[k].pc = "meta" => ENABLED task_fetch(k)
                        /\ units[k].pc = "pages" => ENABLED task_send(k)
                        /\ (dtask[k] = "waiting" /\ permits > 0)
                             => ENABLED acquire_permit(k)
                        /\ dtask[k] = "running" => ENABLED download_task(k))
    /\ [][ Len(artworks_pipeline') < Len(artworks_pipeline)
             => /\ lock = "free"
                /\ openTx = {}
                /\ lock' = "free"
                /\ openTx' = {} ]_vars

C36_Witness ==
    /\ lock = "persist"
    /\ ppc = "save"
    /\ pidx >= 1
    /\ \E k \in Unit \ { pcur } :
          \/ units[k].pc = "pages"
          \/ dtask[k] = "running"

====
